---- MODULE Spec2Model ----
(***************************************************************************)
(* Verification model of the hedera-walletconnect-dapp request layer:      *)
(*   - the namespace capability resolver (src/helpers/namespaces.ts),      *)
(*   - the JSON-RPC dispatch wrapper and its handlers                      *)
(*     (src/contexts/JsonRpcContext.tsx).                                  *)
(* JavaScript strings that the code splits or prefix-tests are modelled as *)
(* sequences of one-character strings; opaque strings (method names,       *)
(* messages) are TLA+ strings.                                             *)
(***************************************************************************)
EXTENDS Integers, Sequences, FiniteSets, TLC

\* ------------------------------------------------------------------------
\* Bounds of the model
\* ------------------------------------------------------------------------
\* longest chain list handed to the namespace resolver
MaxChains == 3
\* number of handler invocations explored in one behaviour
MaxInv == 2
\* longest node-account-id list of a transaction given to the Hedera factory
MaxNodes == 2
\* number of times the Hedera factory is applied to the same transaction
MaxBuilds == 2
\* number of digits of the Date.now() stamp in a test message
MaxStamp == 2
\* number of chain-RPC helper calls explored in one behaviour
MaxApiCalls == 2

\* ------------------------------------------------------------------------
\* JavaScript string helpers
\* ------------------------------------------------------------------------
Digits == <<"0", "1", "2", "3", "4", "5", "6", "7", "8", "9">>

\* String.prototype.startsWith
StartsWith(s, p) ==
  /\ Len(p) <= Len(s)
  /\ \A k \in 1..Len(p) : s[k] = p[k]

\* index of the first occurrence of the character sep in s, 0 when absent
RECURSIVE IndexOf(_, _, _)
IndexOf(s, sep, from) ==
  IF from > Len(s) THEN 0
  ELSE IF s[from] = sep THEN from
  ELSE IndexOf(s, sep, from + 1)

\* String.prototype.split with a one-character separator
RECURSIVE Split(_, _)
Split(s, sep) ==
  LET k == IndexOf(s, sep, 1) IN
  IF k = 0 THEN <<s>>
  ELSE <<SubSeq(s, 1, k - 1)>> \o Split(SubSeq(s, k + 1, Len(s)), sep)

\* the value Number(text) of a JavaScript string made of decimal digits;
\* NaN is modelled as -1.  Number("") is 0.
NaN == -1
DigitValue(c) == CHOOSE d \in 0..9 : Digits[d + 1] = c
IsDigit(c) == \E d \in 1..10 : Digits[d] = c
RECURSIVE DecimalValue(_)
DecimalValue(s) ==
  IF s = <<>> THEN 0
  ELSE 10 * DecimalValue(SubSeq(s, 1, Len(s) - 1)) + DigitValue(s[Len(s)])
Number(s) ==
  IF \A k \in 1..Len(s) : IsDigit(s[k]) THEN DecimalValue(s) ELSE NaN

\* the characters test messages are written with and their UTF-8 bytes
MessageChars ==
  << "M", "y", " ", "e", "m", "a", "i", "l", "s", "j", "o", "h", "n", "@",
     "d", ".", "c", "-", "0", "1", "2", "3", "4", "5", "6", "7", "8", "9" >>
CharCodes ==
  << 77, 121, 32, 101, 109, 97, 105, 108, 115, 106, 111, 104, 110, 64,
     100, 46, 99, 45, 48, 49, 50, 51, 52, 53, 54, 55, 56, 57 >>
CharCode(c) == CharCodes[CHOOSE k \in 1..Len(MessageChars) : MessageChars[k] = c]
HexDigits == << "0", "1", "2", "3", "4", "5", "6", "7", "8", "9",
                "a", "b", "c", "d", "e", "f" >>
HexValue(c) == (CHOOSE k \in 1..16 : HexDigits[k] = c) - 1

\* encoding.utf8ToHex(text, prefix): two hex digits per byte, "0x" in front
\* when prefix is set
RECURSIVE Utf8ToHexDigits(_)
Utf8ToHexDigits(text) ==
  IF text = <<>> THEN <<>>
  ELSE LET b == CharCode(Head(text)) IN
       << HexDigits[(b \div 16) + 1], HexDigits[(b % 16) + 1] >>
         \o Utf8ToHexDigits(Tail(text))
utf8ToHex(text, prefix) ==
  (IF prefix THEN <<"0", "x">> ELSE <<>>) \o Utf8ToHexDigits(text)

\* convertHexToUtf8(hex): the "0x" prefix is dropped, an odd number of
\* digits is padded in front, each byte gives its character (U+FFFD for a
\* byte that is none of the characters above)
RECURSIVE HexDigitsToUtf8(_)
HexDigitsToUtf8(digits) ==
  IF Len(digits) < 2 THEN <<>>
  ELSE LET b == 16 * HexValue(digits[1]) + HexValue(digits[2]) IN
       << IF \E k \in 1..Len(CharCodes) : CharCodes[k] = b
          THEN MessageChars[CHOOSE k \in 1..Len(CharCodes) : CharCodes[k] = b]
          ELSE "U+FFFD" >>
         \o HexDigitsToUtf8(SubSeq(digits, 3, Len(digits)))
convertHexToUtf8(hex) ==
  LET digits == IF StartsWith(hex, <<"0", "x">>)
                THEN SubSeq(hex, 3, Len(hex)) ELSE hex
  IN HexDigitsToUtf8(IF Len(digits) % 2 = 1 THEN <<"0">> \o digits
                     ELSE digits)

\* ------------------------------------------------------------------------
\* Chain ids and namespaces used as inputs
\* ------------------------------------------------------------------------
NsEip155 == <<"e", "i", "p", "1", "5", "5">>
NsHedera == <<"h", "e", "d", "e", "r", "a">>
NsSolana == <<"s", "o", "l", "a", "n", "a">>
NsEip1559 == NsEip155 \o <<"9">>
Colon == <<":">>
RefTestnet == <<"t", "e", "s", "t", "n", "e", "t">>
RefMainnet == <<"m", "a", "i", "n", "n", "e", "t">>

ChainEip155_1 == NsEip155 \o Colon \o <<"1">>
ChainEip155_5 == NsEip155 \o Colon \o <<"5">>
ChainEip155_999 == NsEip155 \o Colon \o <<"9", "9", "9">>
ChainHederaTestnet == NsHedera \o Colon \o RefTestnet
ChainHederaMainnet == NsHedera \o Colon \o RefMainnet
ChainSolana == NsSolana \o Colon \o <<"1">>
ChainEip1559 == NsEip1559 \o Colon \o <<"1">>

\* chain ids offered to the namespace resolver
ResolverChainIds ==
  { ChainEip155_1, ChainEip155_999, ChainHederaTestnet, ChainHederaMainnet,
    ChainSolana, ChainEip1559 }

\* ------------------------------------------------------------------------
\* Static tables (constants/index.ts, chains/*.ts, helpers/api.ts)
\* ------------------------------------------------------------------------
\* Object.values of each enum, in declaration order
DEFAULT_EIP155_METHODS == <<"eth_sendTransaction", "personal_sign">>
DEFAULT_EIP155_OPTIONAL_METHODS ==
  <<"eth_signTransaction", "eth_sign", "eth_signTypedData",
    "eth_signTypedData_v4">>
DEFAULT_EIP_155_EVENTS == <<"chainChanged", "accountsChanged">>
DEFAULT_HEDERA_METHODS ==
  <<"hedera_signAndExecuteTransaction", "hedera_signAndReturnTransaction",
    "hedera_signMessage">>
DEFAULT_HEDERA_EVENTS == <<>>

\* references (as numbers / strings) present in the chain tables
EIP155ChainData == {1, 5, 42, 280, 324, 42161, 421611}
HederaChainData == {RefTestnet}
rpcProvidersByChainId == {1, 5, 280, 324, 42161, 421611}

\* ------------------------------------------------------------------------
\* Namespace capability resolver (helpers/namespaces.ts)
\* A call either returns a value or throws: [threw, val, msg].
\* ------------------------------------------------------------------------
Return(v) == [threw |-> FALSE, val |-> v, msg |-> ""]
Throw(m) == [threw |-> TRUE, val |-> <<>>, msg |-> m]

RECURSIVE getNamespacesFromChainsFrom(_, _)
getNamespacesFromChainsFrom(chains, supportedNamespaces) ==
  IF chains = <<>> THEN supportedNamespaces
  ELSE LET namespace == Split(Head(chains), ":")[1] IN
       getNamespacesFromChainsFrom(Tail(chains),
         IF \E k \in 1..Len(supportedNamespaces) :
              supportedNamespaces[k] = namespace
         THEN supportedNamespaces
         ELSE Append(supportedNamespaces, namespace))

\* variant: no includes() test, every chain pushes its namespace
RECURSIVE getNamespacesFromChainsNoDedup(_)
getNamespacesFromChainsNoDedup(chains) ==
  IF chains = <<>> THEN <<>>
  ELSE <<Split(Head(chains), ":")[1]>>
       \o getNamespacesFromChainsNoDedup(Tail(chains))

getNamespacesFromChains(chains) == getNamespacesFromChainsFrom(chains, <<>>)

\* variant: the hedera case gives an empty list
getSupportedRequiredMethodsHederaEmpty(namespace) ==
  IF namespace = NsEip155 THEN Return(DEFAULT_EIP155_METHODS)
  ELSE IF namespace = NsHedera THEN Return(<<>>)
  ELSE Throw("No default required methods for namespace")

\* variant: the hedera case gives the eip155 list
getSupportedRequiredMethodsCrossed(namespace) ==
  IF namespace = NsEip155 THEN Return(DEFAULT_EIP155_METHODS)
  ELSE IF namespace = NsHedera THEN Return(DEFAULT_EIP155_METHODS)
  ELSE Throw("No default required methods for namespace")

getSupportedRequiredMethodsByNamespace(namespace) ==
  IF namespace = NsEip155 THEN Return(DEFAULT_EIP155_METHODS)
  ELSE IF namespace = NsHedera THEN Return(DEFAULT_HEDERA_METHODS)
  ELSE Throw("No default required methods for namespace")

\* variant: the default case gives an empty list instead of throwing
getSupportedOptionalMethodsNoThrow(namespace) ==
  IF namespace = NsEip155 THEN Return(DEFAULT_EIP155_OPTIONAL_METHODS)
  ELSE Return(<<>>)

getSupportedOptionalMethodsByNamespace(namespace) ==
  IF namespace = NsEip155 THEN Return(DEFAULT_EIP155_OPTIONAL_METHODS)
  ELSE IF namespace = NsHedera THEN Return(<<>>)
  ELSE Throw("No default optional methods for namespace")

getSupportedEventsByNamespace(namespace) ==
  IF namespace = NsEip155 THEN Return(DEFAULT_EIP_155_EVENTS)
  ELSE IF namespace = NsHedera THEN Return(DEFAULT_HEDERA_EVENTS)
  ELSE Throw("No default events for namespace")

\* variant: every entry lists all the chains
FilterNothing(chains, namespace) == chains

\* chains.filter((chain) => chain.startsWith(namespace))
RECURSIVE FilterStartsWith(_, _)
FilterStartsWith(chains, namespace) ==
  IF chains = <<>> THEN <<>>
  ELSE (IF StartsWith(Head(chains), namespace) THEN <<Head(chains)>> ELSE <<>>)
       \o FilterStartsWith(Tail(chains), namespace)

\* selectedNamespaces.map(...) of getRequiredNamespaces: the entries are
\* built left to right and the first throw aborts the whole map.
RECURSIVE RequiredEntries(_, _)
RequiredEntries(selectedNamespaces, chains) ==
  IF selectedNamespaces = <<>> THEN Return(<<>>)
  ELSE LET namespace == Head(selectedNamespaces)
           methods == getSupportedRequiredMethodsByNamespace(namespace)
           events == getSupportedEventsByNamespace(namespace)
           rest == RequiredEntries(Tail(selectedNamespaces), chains)
       IN IF methods.threw THEN methods
          ELSE IF events.threw THEN events
          ELSE IF rest.threw THEN rest
          ELSE Return(<<[namespace |-> namespace,
                         methods |-> methods.val,
                         chains |-> FilterStartsWith(chains, namespace),
                         events |-> events.val]>> \o rest.val)

\* Object.fromEntries: a key that comes again keeps its place and takes the
\* later value
RECURSIVE ObjectFromEntriesFrom(_, _)
ObjectFromEntriesFrom(entries, obj) ==
  IF entries = <<>> THEN obj
  ELSE LET e == Head(entries) IN
       ObjectFromEntriesFrom(Tail(entries),
         IF \E k \in 1..Len(obj) : obj[k].namespace = e.namespace
         THEN [k \in 1..Len(obj) |->
                 IF obj[k].namespace = e.namespace THEN e ELSE obj[k]]
         ELSE Append(obj, e))
ObjectFromEntries(entries) ==
  IF entries.threw THEN entries
  ELSE Return(ObjectFromEntriesFrom(entries.val, <<>>))

getRequiredNamespaces(chains) ==
  ObjectFromEntries(RequiredEntries(getNamespacesFromChains(chains), chains))

RECURSIVE OptionalEntries(_, _)
OptionalEntries(selectedNamespaces, chains) ==
  IF selectedNamespaces = <<>> THEN Return(<<>>)
  ELSE LET namespace == Head(selectedNamespaces)
           methods == getSupportedOptionalMethodsByNamespace(namespace)
           rest == OptionalEntries(Tail(selectedNamespaces), chains)
       IN IF methods.threw THEN methods
          ELSE IF rest.threw THEN rest
          ELSE Return(<<[namespace |-> namespace,
                         methods |-> methods.val,
                         chains |-> FilterStartsWith(chains, namespace),
                         events |-> <<>>]>> \o rest.val)

getOptionalNamespaces(chains) ==
  ObjectFromEntries(OptionalEntries(getNamespacesFromChains(chains), chains))

\* ------------------------------------------------------------------------
\* Chain-RPC helpers (helpers/api.ts).  There are two versions of the
\* module: one with the six-entry provider table and no Hedera branch, one
\* with a two-entry table and a Hedera mirror-node branch.
\* A call gives [threw, val, msg, requests]: how the promise settled and the
\* network requests sent.  net is what the network does with a request.
\* ------------------------------------------------------------------------
ApiEip155 == [hedera |-> FALSE, providers |-> rpcProvidersByChainId]
ApiHedera == [hedera |-> TRUE, providers |-> {1, 5}]
ApiModules == {ApiEip155, ApiHedera}

\* the outcome of a network request: a response carrying result (hex text,
\* <<>> when the key is absent) and the mirror-node balance, or a failure
NetOutcomes ==
  { [ok |-> TRUE, result |-> <<"0", "x", "1", "0">>, balance |-> 16,
     msg |-> ""],
    [ok |-> TRUE, result |-> <<>>, balance |-> 0, msg |-> ""],
    [ok |-> FALSE, result |-> <<>>, balance |-> 0,
     msg |-> "timeout of 10000ms exceeded"] }

ApiRequest(instance, what) == [instance |-> instance, what |-> what]
ApiReturn(v, requests) ==
  [threw |-> FALSE, val |-> v, msg |-> "", requests |-> requests]
ApiThrow(m, requests) ==
  [threw |-> TRUE, val |-> [t |-> "undefined"], msg |-> m,
   requests |-> requests]

\* AssetData
Asset(balance, symbol, name) ==
  [t |-> "asset", balance |-> balance, symbol |-> symbol, name |-> name]
JsNumber(n) == [t |-> "number", n |-> n]
JsText(s) == [t |-> "string", s |-> s]

\* Number.prototype.toString for a non-negative integer or NaN
RECURSIVE DecimalDigits(_)
DecimalDigits(n) ==
  IF n < 10 THEN <<Digits[n + 1]>>
  ELSE DecimalDigits(n \div 10) \o <<Digits[(n % 10) + 1]>>
NumberToString(n) == IF n = NaN THEN <<"N", "a", "N">> ELSE DecimalDigits(n)

\* parseInt(text, 16) of "0x..." hex text; NaN for an absent result
RECURSIVE ParseHex(_)
ParseHex(digits) ==
  IF digits = <<>> THEN 0
  ELSE 16 * ParseHex(SubSeq(digits, 1, Len(digits) - 1))
         + ((CHOOSE k \in 1..10 : Digits[k] = digits[Len(digits)]) - 1)
ParseInt16(text) ==
  IF Len(text) < 3 THEN NaN ELSE ParseHex(SubSeq(text, 3, Len(text)))

\* rpcProvidersByChainId[Number(chainId.split(":")[1])] is defined
ProviderDefined(api, chainId) ==
  LET parts == Split(chainId, ":")
      ethChainId == IF Len(parts) >= 2 THEN Number(parts[2]) ELSE NaN
  IN ethChainId \in api.providers

apiGetAccountBalance(api, address, chainId, net) ==
  LET namespace == Split(chainId, ":")[1] IN
  IF api.hedera /\ namespace = NsHedera THEN
    LET request == <<ApiRequest("hederaApi", "GET /accounts/address")>> IN
    IF ~net.ok THEN ApiThrow(net.msg, request)
    ELSE ApiReturn(Asset(JsNumber(net.balance), "h-bar", "HBar"), request)
  ELSE IF namespace # NsEip155 THEN
    ApiReturn(Asset(JsText(<<>>), "", ""), <<>>)
  ELSE IF ~ProviderDefined(api, chainId) THEN
    ApiReturn(Asset(JsText(<<>>), "", ""), <<>>)
  ELSE
    LET request == <<ApiRequest("api", "eth_getBalance")>> IN
    IF ~net.ok THEN ApiThrow(net.msg, request)
    ELSE ApiReturn(Asset(JsText(NumberToString(ParseInt16(net.result))),
                         "ETH", "Ether"), request)

\* variant: without a provider entry the nonce is NaN and nothing is thrown
apiGetAccountNonceDegraded(api, address, chainId, net) ==
  IF ~ProviderDefined(api, chainId) THEN ApiReturn(JsNumber(NaN), <<>>)
  ELSE
    LET request == <<ApiRequest("api", "eth_getTransactionCount")>> IN
    IF ~net.ok THEN ApiThrow(net.msg, request)
    ELSE ApiReturn(JsNumber(ParseInt16(net.result)), request)

\* destructuring the missing table entry throws a TypeError
apiGetAccountNonce(api, address, chainId, net) ==
  IF ~ProviderDefined(api, chainId)
  THEN ApiThrow("Cannot destructure property 'baseURL' of undefined", <<>>)
  ELSE
    LET request == <<ApiRequest("api", "eth_getTransactionCount")>> IN
    IF ~net.ok THEN ApiThrow(net.msg, request)
    ELSE ApiReturn(JsNumber(ParseInt16(net.result)), request)

apiGetGasPrice(api, chainId, net) ==
  IF ~ProviderDefined(api, chainId)
  THEN ApiThrow("Cannot destructure property 'baseURL' of undefined", <<>>)
  ELSE
    LET request == <<ApiRequest("api", "eth_gasPrice")>> IN
    IF ~net.ok THEN ApiThrow(net.msg, request)
    ELSE ApiReturn(IF net.result = <<>> THEN [t |-> "undefined"]
                   ELSE JsText(net.result), request)

\* chain ids the helpers are called with
ChainEip155_280 == NsEip155 \o Colon \o <<"2", "8", "0">>
ApiChainIds ==
  { ChainEip155_1, ChainEip155_280, ChainEip155_999, ChainHederaTestnet,
    ChainSolana }

\* ------------------------------------------------------------------------
\* State
\* ------------------------------------------------------------------------
VARIABLES
  \* namespace resolver: the chain list of a connection attempt and what
  \* the two resolver calls and getNamespacesFromChains gave for it
  inputChains, requiredNamespaces, optionalNamespaces, selectedNamespaces,
  \* useWalletConnectClient(): client and session, TRUE when defined
  client, session,
  \* useState: the pending flag and the stored result
  pending, result,
  \* the invocation whose setResult call stored the current result (0: none)
  writer,
  \* per handler invocation: position, arguments, the wallet response kept
  \* across an await, the wallet request in flight, the number of
  \* client.request calls made, the setter calls made, how the invocation
  \* ended and the error a rejected invocation carries
  pc, args, got, req, nreq, calls, ending, error,
  \* the order in which invocations entered their try block ("S") and left
  \* it through finally ("F")
  log,
  \* Hedera factory: the Transaction object handed to it and, per call made
  \* on it, the factory, the request type, the SDK calls and the payload
  txObject, built,
  \* request display: the test message of a signing handler, the wallet
  \* request built for it and what getChainRequestRender gave for it
  signMessage, signRequest, rendered,
  \* chain-RPC helpers: per call made, the helper, its arguments, the
  \* network requests it sent and how its promise settled
  apiCalls

nsVars == <<inputChains, requiredNamespaces, optionalNamespaces,
            selectedNamespaces>>
rpcVars == <<client, session, pending, result, writer,
             pc, args, got, req, nreq, calls, ending, error, log>>
txVars == <<txObject, built>>
renderVars == <<signMessage, signRequest, rendered>>
apiVars == <<apiCalls>>
vars == <<inputChains, requiredNamespaces, optionalNamespaces,
          selectedNamespaces, client,
          session, pending, result, writer, pc, args, got, req, nreq, calls,
          ending, error, log, txObject, built,
          signMessage, signRequest, rendered, apiCalls>>

Inv == 1..MaxInv
\* a resolver call that has not been made, and one that gave out
NotCalled == [called |-> FALSE, out |-> Throw("")]
Called(out) == [called |-> TRUE, out |-> out]

\* all chain lists of length at most n over ResolverChainIds
ChainLists(n) == UNION { [1..k -> ResolverChainIds] : k \in 0..n }

\* ------------------------------------------------------------------------
\* JavaScript values.  A string value carries a sequence of text pieces
\* (single characters where the code inspects them, longer pieces else).
\* ------------------------------------------------------------------------
Str(s) == [t |-> "string", v |-> s]
Undefined == [t |-> "undefined", v |-> <<>>]
Obj(s) == [t |-> "object", v |-> s]

\* new Error(msg)
NewError(msg) == [t |-> "Error", v |-> msg, message |-> Str(msg)]
\* a thrown or rejected value that is not an Error: .message is absent
NonError(val) == [t |-> val.t, v |-> val.v, message |-> Undefined]
\* a JSON-RPC error object {code, message}
RpcError(msg) == [t |-> "object", v |-> msg, message |-> Str(msg)]

\* IFormattedRpcResponse; an absent key reads as undefined.  kind tells the
\* useState value apart: "undefined" before any setResult, "null", "object".
Response(m, a, valid, r) ==
  [kind |-> "object", method |-> m, address |-> a, valid |-> valid,
   result |-> r]
NoResult ==
  [kind |-> "undefined", method |-> Undefined, address |-> Undefined,
   valid |-> FALSE, result |-> Undefined]
NullResult ==
  [kind |-> "null", method |-> Undefined, address |-> Undefined,
   valid |-> FALSE, result |-> Undefined]

\* JSON.stringify of a wallet response
JSONStringify(val) ==
  IF val.t = "string" THEN Str(<<"\"">> \o val.v \o <<"\"">>)
  ELSE IF val.t = "undefined" THEN Undefined
  ELSE Str(val.v)

\* ------------------------------------------------------------------------
\* Hedera payload factory (helpers/hedera: HederaParamsFactory).
\* A Transaction of the SDK is a record: the node account ids (null until
\* set), the frozen flag and the bytes of its body.  A call on it is logged
\* with the frozen flag it found.
\* ------------------------------------------------------------------------
Null == [t |-> "null", v |-> <<>>]
Array(s) == [t |-> "array", v |-> s]
SdkCall(name, tx) == [call |-> name, frozen |-> tx.frozen]

\* RequestType.toString() of the SDK, by request code
RequestTypeToString(type) ==
  IF type = 0 THEN "CryptoTransfer"
  ELSE IF type = 1 THEN "CryptoUpdate"
  ELSE "CryptoDelete"

\* transaction.toBytes(): the node ids the transaction is built for and
\* its body
toBytes(tx) ==
  <<Len(tx.nodeAccountIds.v)>> \o tx.nodeAccountIds.v \o tx.body

\* Buffer.from(bytes).toString("base64")
Base64Alphabet ==
  << "A", "B", "C", "D", "E", "F", "G", "H", "I", "J", "K", "L", "M", "N", "O",
     "P", "Q", "R", "S", "T", "U", "V", "W", "X", "Y", "Z", "a", "b", "c", "d",
     "e", "f", "g", "h", "i", "j", "k", "l", "m", "n", "o", "p", "q", "r", "s",
     "t", "u", "v", "w", "x", "y", "z", "0", "1", "2", "3", "4", "5", "6", "7",
     "8", "9", "+", "/" >>
Base64Char(n) == Base64Alphabet[n + 1]
RECURSIVE Base64Encode(_)
Base64Encode(b) ==
  IF b = <<>> THEN <<>>
  ELSE IF Len(b) = 1 THEN
    << Base64Char(b[1] \div 4), Base64Char((b[1] % 4) * 16), "=", "=" >>
  ELSE IF Len(b) = 2 THEN
    << Base64Char(b[1] \div 4),
       Base64Char((b[1] % 4) * 16 + b[2] \div 16),
       Base64Char((b[2] % 16) * 4), "=" >>
  ELSE
    << Base64Char(b[1] \div 4),
       Base64Char((b[1] % 4) * 16 + b[2] \div 16),
       Base64Char((b[2] % 16) * 4 + b[3] \div 64),
       Base64Char(b[3] % 64) >> \o Base64Encode(SubSeq(b, 4, Len(b)))

\* variant: node id 3 is added whatever the transaction already has
setNodeAccountIdsAlwaysAdds(transaction) ==
  [tx |-> [transaction EXCEPT
             !.nodeAccountIds = Array(transaction.nodeAccountIds.v \o <<3>>)],
   calls |-> <<SdkCall("setNodeAccountIds", transaction)>>]

\* HederaParamsFactory._setNodeAccountIds
setNodeAccountIds(transaction) ==
  LET nodeIds == transaction.nodeAccountIds IN
  IF nodeIds.t = "null" \/ Len(nodeIds.v) = 0
  THEN [tx |-> [transaction EXCEPT !.nodeAccountIds = Array(<<3>>)],
        calls |-> <<SdkCall("setNodeAccountIds", transaction)>>]
  ELSE [tx |-> transaction, calls |-> <<>>]

\* variant: freeze() is called without asking isFrozen()
freezeTransactionAlways(transaction) ==
  [tx |-> [transaction EXCEPT !.frozen = TRUE],
   calls |-> <<SdkCall("freeze", transaction)>>]

\* HederaParamsFactory._freezeTransaction
freezeTransaction(transaction) ==
  IF ~transaction.frozen
  THEN [tx |-> [transaction EXCEPT !.frozen = TRUE],
        calls |-> <<SdkCall("freeze", transaction)>>]
  ELSE [tx |-> transaction, calls |-> <<>>]

\* HederaParamsFactory._encodeTransactionBytes
encodeTransactionBytes(transaction) ==
  [t |-> "string", v |-> Base64Encode(toBytes(transaction))]

\* HederaParamsFactory.buildSignAndSendTransactionPayload: the transaction
\* as the call leaves it, the SDK calls made and the payload returned
buildSignAndSendTransactionPayload(type, transaction) ==
  LET a == setNodeAccountIds(transaction)
      b == freezeTransaction(a.tx)
  IN [tx |-> b.tx,
      calls |-> a.calls \o b.calls \o <<SdkCall("toBytes", b.tx)>>,
      payload |-> [type |-> Str(<<RequestTypeToString(type)>>),
                   bytes |-> [t |-> "Uint8Array", v |-> toBytes(b.tx)]]]

\* HederaParamsFactory.buildTransactionPayload (base64 transport)
buildTransactionPayload(type, transaction) ==
  LET a == setNodeAccountIds(transaction)
      b == freezeTransaction(a.tx)
  IN [tx |-> b.tx,
      calls |-> a.calls \o b.calls \o <<SdkCall("toBytes", b.tx)>>,
      payload |-> [type |-> Str(<<RequestTypeToString(type)>>),
                   bytes |-> encodeTransactionBytes(b.tx)]]

Factories ==
  { "buildSignAndSendTransactionPayload", "buildTransactionPayload" }
BuildPayload(factory, type, transaction) ==
  IF factory = "buildTransactionPayload"
  THEN buildTransactionPayload(type, transaction)
  ELSE buildSignAndSendTransactionPayload(type, transaction)

\* transactions handed to the factory: node ids null, empty or up to
\* MaxNodes ids; a frozen transaction has node ids (freeze() needs them)
NodeIdLists == UNION { [1..k -> {3, 4}] : k \in 1..MaxNodes }
Bodies == { <<232, 3>>, <<7, 255, 0, 16>> }
Transactions ==
  { [nodeAccountIds |-> n, frozen |-> FALSE, body |-> b] :
      n \in {Null, Array(<<>>)} \cup { Array(l) : l \in NodeIdLists },
      b \in Bodies }
  \cup
  { [nodeAccountIds |-> Array(l), frozen |-> TRUE, body |-> b] :
      l \in NodeIdLists, b \in Bodies }
CryptoTransfer == 0
RequestTypes == {CryptoTransfer, 1, 2}

\* the TransferTransaction the Hedera handler builds: transaction id set,
\* no node ids, not frozen, a transfer of 1000 tinybars
NewTransferTransaction == [nodeAccountIds |-> Null, frozen |-> FALSE,
                           body |-> <<232, 3>>]
\* request params of a handler that builds none with the factory
NoParams == [type |-> Undefined, bytes |-> Undefined]

\* ------------------------------------------------------------------------
\* Inputs of the dispatch layer
\* ------------------------------------------------------------------------
AddrA == <<"0", "x", "A">>
AddrB == <<"0", "x", "B">>
AddrHedera == <<"0", ".", "0", ".", "7">>

\* the session's accounts (useWalletConnectClient().accounts), CAIP-10
accounts ==
  { ChainEip155_1 \o Colon \o AddrA,
    ChainEip155_999 \o Colon \o AddrA,
    ChainHederaTestnet \o Colon \o AddrHedera }

\* (chainId, address) pairs a handler is invoked with
Inputs ==
  { <<ChainEip155_1, AddrA>>, <<ChainEip155_999, AddrA>>,
    <<ChainEip155_5, AddrA>>, <<ChainHederaTestnet, AddrHedera>> }

SignHandlers ==
  { "testSignPersonalMessage", "testEthSign", "testSignTypedData",
    "testSignTypedDatav4" }
TxHandlers == { "testSendTransaction", "testSignTransaction" }
NearHandlers ==
  { "nearTestSignAndSendTransaction", "nearTestSignAndSendTransactions" }
Handlers ==
  TxHandlers \cup SignHandlers \cup NearHandlers
    \cup { "hederaTestSignAndSendTransaction" }

\* String.prototype.toLowerCase on the letters addresses are written with
ToLowerCase(s) ==
  [k \in 1..Len(s) |->
     IF s[k] = "A" THEN "a" ELSE IF s[k] = "B" THEN "b"
     ELSE IF s[k] = "X" THEN "x" ELSE s[k]]

\* the test messages of the signing handlers
PersonalMessage == "My email is john@doe.com - now"
TypedDataMessage == "JSON.stringify(eip712.example)"
\* hashPersonalMessage / hashTypedDataMessage: the hash names the scheme and
\* the message it was taken of
hashPersonalMessage(message) == <<"keccak256", "personal", message>>
hashTypedDataMessage(message) == <<"keccak256", "typedData", message>>

\* the address that belongs to a signing key, as a signature recovers it
KeyAddress(key) == <<"0", "x", key>>
\* a signature text made with a key over a hash; a serialized signed
\* transaction with the key that signed it, its body and whether the
\* embedded signature is well formed
Signature(key, hash) == Str(<<"sig", key>> \o hash)
SignedTx(key, body, sig) == Str(<<"tx", key, body, sig>>)
IsSignature(val) ==
  val.t = "string" /\ Len(val.v) > 2 /\ val.v[1] = "sig"

\* what the wallet may answer to client.request / what it may reject with
WalletResponses ==
  { SignedTx("a", "sent", "ok"),
    Signature("a", hashPersonalMessage(PersonalMessage)),
    Obj(<<"{nodeId:3}">>), Undefined }
WalletErrors ==
  { NewError(<<"User rejected">>), NewError(<<>>),
    RpcError(<<"User rejected the request">>),
    NonError(Obj(<<"{code:5000}">>)), NonError(Str(<<"timeout">>)),
    NonError(Undefined) }
\* formatTestTransaction(account): the test transaction or a rejection
TestTransactions ==
  { [gasPrice |-> 1, gasLimit |-> 2], [gasPrice |-> 2, gasLimit |-> 2] }
FormatErrors == { NewError(<<"Failed to fetch nonce">>) }
\* balances[account][0].balance: -1 stands for a missing balances entry,
\* 0 for the empty string (balance || "0"), -2 for a text BigNumber.from
\* rejects ("NaN", "1e+21")
Balances == { -2, -1, 0, 2, 4 }
VerifyErrors == { NewError(<<"could not detect network">>) }

\* a settled promise: resolved with val, or rejected with err
NoError == NonError(Undefined)
Resolved(val) == [ok |-> TRUE, val |-> val, err |-> NoError]
Rejected(err, noVal) == [ok |-> FALSE, val |-> noVal, err |-> err]
WalletOutcomes ==
  { Resolved(r) : r \in WalletResponses } \cup
  { Rejected(e, Undefined) : e \in WalletErrors }
FormatOutcomes ==
  { Resolved(tx) : tx \in TestTransactions } \cup
  { Rejected(e, [gasPrice |-> 0, gasLimit |-> 0]) : e \in FormatErrors }
VerifyOutcomes ==
  { Resolved(b) : b \in BOOLEAN } \cup
  { Rejected(e, FALSE) : e \in VerifyErrors }
PingOutcomes ==
  { Resolved(Undefined), Rejected(NewError(<<"ping timeout">>), Undefined) }

\* ------------------------------------------------------------------------
\* Handlers (contexts/JsonRpcContext.tsx).  A handler body runs until it
\* awaits, returns or throws; each run is summarised as a step.
\* ------------------------------------------------------------------------
AwaitWallet(method, keep) ==
  [k |-> "await", on |-> "awaitWallet", method |-> method, keep |-> keep,
   resp |-> NoResult, err |-> NoError, params |-> NoParams]
AwaitOther(on, keep) ==
  [k |-> "await", on |-> on, method |-> Undefined, keep |-> keep,
   resp |-> NoResult, err |-> NoError, params |-> NoParams]
Returned(resp) ==
  [k |-> "return", on |-> "", method |-> Undefined, keep |-> Undefined,
   resp |-> resp, err |-> NoError, params |-> NoParams]
Thrown(err) ==
  [k |-> "throw", on |-> "", method |-> Undefined, keep |-> Undefined,
   resp |-> NoResult, err |-> err, params |-> NoParams]
\* the wallet request carries params built by the Hedera factory
WithParams(step, params) == [step EXCEPT !.params = params]

\* the method string a handler puts in client.request; an enum member that
\* the enum does not declare reads as undefined
HederaMethod(member) ==
  IF member = "HEDERA_SIGN_AND_EXECUTE_TRANSACTION"
    THEN Str(<<DEFAULT_HEDERA_METHODS[1]>>)
  ELSE IF member = "HEDERA_SIGN_AND_RETURN_TRANSACTION"
    THEN Str(<<DEFAULT_HEDERA_METHODS[2]>>)
  ELSE IF member = "HEDERA_SIGN_MESSAGE"
    THEN Str(<<DEFAULT_HEDERA_METHODS[3]>>)
  ELSE Undefined

RequestMethod(h) ==
  CASE h = "testSendTransaction" -> Str(<<DEFAULT_EIP155_METHODS[1]>>)
    [] h = "testSignPersonalMessage" -> Str(<<DEFAULT_EIP155_METHODS[2]>>)
    [] h = "testSignTransaction" -> Str(<<DEFAULT_EIP155_OPTIONAL_METHODS[1]>>)
    [] h = "testEthSign" -> Str(<<DEFAULT_EIP155_OPTIONAL_METHODS[2]>>)
    [] h = "testSignTypedData" -> Str(<<DEFAULT_EIP155_OPTIONAL_METHODS[3]>>)
    [] h = "testSignTypedDatav4" -> Str(<<DEFAULT_EIP155_OPTIONAL_METHODS[4]>>)
    [] h = "hederaTestSignAndSendTransaction" ->
         HederaMethod("HEDERA_SIGN_AND_SEND_TRANSACTION")
    [] OTHER -> Undefined

\* the method field of the response a handler returns
ResponseMethod(h) ==
  CASE h = "testEthSign" ->
         Str(<<DEFAULT_EIP155_OPTIONAL_METHODS[2], " (standard)">>)
    [] h = "testSignTypedDatav4" -> Str(<<DEFAULT_EIP155_OPTIONAL_METHODS[3]>>)
    [] OTHER -> RequestMethod(h)

\* an address of the form shard.realm.num
IsEntityId(address) ==
  LET parts == Split(address, ".") IN
  /\ Len(parts) = 3
  /\ \A k \in 1..3 : parts[k] # <<>> /\ Number(parts[k]) # NaN

\* building the Hedera transfer with the SDK: an entity id is accepted; for
\* any other address text the SDK may accept or throw
HederaBuildOutcomes(address) ==
  IF IsEntityId(address) THEN {TRUE} ELSE {TRUE, FALSE}

\* variant: the transaction handlers do not look the account up
StartRpcRequestNoAccountCheck(h, chainId, address, sdkOk) ==
  IF h \in TxHandlers THEN AwaitOther("awaitFormat", Undefined)
  ELSE IF h \in SignHandlers THEN AwaitWallet(RequestMethod(h), Undefined)
  ELSE IF h = "hederaTestSignAndSendTransaction" THEN
    IF sdkOk
    THEN WithParams(AwaitWallet(RequestMethod(h), Undefined),
           buildSignAndSendTransactionPayload(CryptoTransfer,
                                              NewTransferTransaction).payload)
    ELSE Thrown(NewError(<<"failed to parse entity id">>))
  ELSE Thrown(NewError(<<"Cannot read properties of undefined">>))

\* variant: the signing handlers look the RPC provider up before sending
StartRpcRequestLooksUpFirst(h, chainId, address, sdkOk) ==
  IF h \in TxHandlers THEN
    LET caipAccountAddress == chainId \o Colon \o address IN
    IF caipAccountAddress \notin accounts
    THEN Thrown(NewError(<<"Account for ">> \o caipAccountAddress
                            \o <<" not found">>))
    ELSE AwaitOther("awaitFormat", Undefined)
  ELSE IF h \in SignHandlers THEN
    IF Number(Split(chainId, ":")[2]) \notin rpcProvidersByChainId
    THEN Thrown(NewError(<<"Missing rpcProvider definition for chainId: ">>
                            \o chainId))
    ELSE AwaitWallet(RequestMethod(h), Undefined)
  ELSE IF h = "hederaTestSignAndSendTransaction" THEN
    IF sdkOk
    THEN WithParams(AwaitWallet(RequestMethod(h), Undefined),
           buildSignAndSendTransactionPayload(CryptoTransfer,
                                              NewTransferTransaction).payload)
    ELSE Thrown(NewError(<<"failed to parse entity id">>))
  ELSE Thrown(NewError(<<"Cannot read properties of undefined">>))

\* rpcRequest from its first statement to its first await
StartRpcRequest(h, chainId, address, sdkOk) ==
  IF h \in TxHandlers THEN
    LET caipAccountAddress == chainId \o Colon \o address IN
    IF caipAccountAddress \notin accounts
    THEN Thrown(NewError(<<"Account for ">> \o caipAccountAddress
                            \o <<" not found">>))
    ELSE AwaitOther("awaitFormat", Undefined)
  ELSE IF h \in SignHandlers THEN AwaitWallet(RequestMethod(h), Undefined)
  ELSE IF h = "hederaTestSignAndSendTransaction" THEN
    IF sdkOk
    THEN WithParams(AwaitWallet(RequestMethod(h), Undefined),
           buildSignAndSendTransactionPayload(CryptoTransfer,
                                              NewTransferTransaction).payload)
    ELSE Thrown(NewError(<<"failed to parse entity id">>))
  ELSE \* nearRpc: the constants module exports no DEFAULT_NEAR_METHODS
    Thrown(NewError(<<"Cannot read properties of undefined">>))

\* variant: a balance equal to the cost counts as insufficient
AfterFormatNeedsMore(h, chainId, address, outcome, balance) ==
  IF ~outcome.ok THEN Thrown(outcome.err)
  ELSE IF h = "testSendTransaction" THEN
    IF balance = -1
    THEN Thrown(NewError(<<"Cannot read properties of undefined">>))
    ELSE IF balance = -2
    THEN Thrown(NewError(<<"invalid BigNumber string">>))
    ELSE IF balance <= outcome.val.gasPrice * outcome.val.gasLimit
    THEN Returned(Response(RequestMethod(h), Str(address), FALSE,
           Str(<<"Insufficient funds for intrinsic transaction cost">>)))
    ELSE AwaitWallet(RequestMethod(h), Undefined)
  ELSE AwaitWallet(RequestMethod(h), Undefined)

\* continuation after await formatTestTransaction(account)
AfterFormat(h, chainId, address, outcome, balance) ==
  IF ~outcome.ok THEN Thrown(outcome.err)
  ELSE IF h = "testSendTransaction" THEN
    IF balance = -1
    THEN Thrown(NewError(<<"Cannot read properties of undefined">>))
    ELSE IF balance = -2
    THEN Thrown(NewError(<<"invalid BigNumber string">>))
    ELSE IF balance < outcome.val.gasPrice * outcome.val.gasLimit
    THEN Returned(Response(RequestMethod(h), Str(address), FALSE,
           Str(<<"Insufficient funds for intrinsic transaction cost">>)))
    ELSE AwaitWallet(RequestMethod(h), Undefined)
  ELSE AwaitWallet(RequestMethod(h), Undefined)

\* EthTransaction.fromSerializedTx(signedTx): throws unless signedTx is a
\* serialized transaction; verifySignature() checks the embedded signature
IsSerializedTx(val) ==
  val.t = "string" /\ Len(val.v) = 4 /\ val.v[1] = "tx"
EmbeddedSignatureVerifies(val) == val.v[4] = "ok"

\* variant: a signed transaction counts only when the requesting address
\* signed it
AfterWalletResolvedChecksSigner(h, chainId, address, val) ==
  IF h = "testSendTransaction" THEN
    Returned(Response(RequestMethod(h), Str(address), TRUE, val))
  ELSE IF h = "testSignTransaction" THEN
    IF ~IsSerializedTx(val)
    THEN Thrown(NewError(<<"invalid remaining bytes">>))
    ELSE Returned(Response(RequestMethod(h), Str(address),
                           /\ EmbeddedSignatureVerifies(val)
                           /\ ToLowerCase(KeyAddress(val.v[2]))
                                = ToLowerCase(address),
                           val))
  ELSE IF h \in SignHandlers THEN
    LET reference == Split(chainId, ":")[2] IN
    IF Number(reference) \notin rpcProvidersByChainId
    THEN Thrown(NewError(<<"Missing rpcProvider definition for chainId: ">>
                            \o chainId))
    ELSE AwaitOther("awaitVerify", val)
  ELSE \* hederaRpc.testSignAndSendTransaction
    Returned(Response(RequestMethod(h), Str(address), TRUE,
                      JSONStringify(val)))

\* variant: the Hedera handler accepts only an answer that is an object
AfterWalletResolvedHederaChecks(h, chainId, address, val) ==
  IF h = "testSendTransaction" THEN
    Returned(Response(RequestMethod(h), Str(address), TRUE, val))
  ELSE IF h = "testSignTransaction" THEN
    IF ~IsSerializedTx(val)
    THEN Thrown(NewError(<<"invalid remaining bytes">>))
    ELSE Returned(Response(RequestMethod(h), Str(address),
                           EmbeddedSignatureVerifies(val), val))
  ELSE IF h \in SignHandlers THEN
    LET reference == Split(chainId, ":")[2] IN
    IF Number(reference) \notin rpcProvidersByChainId
    THEN Thrown(NewError(<<"Missing rpcProvider definition for chainId: ">>
                            \o chainId))
    ELSE AwaitOther("awaitVerify", val)
  ELSE \* hederaRpc.testSignAndSendTransaction
    Returned(Response(RequestMethod(h), Str(address), val.t = "object",
                      JSONStringify(val)))

\* the handler body after client.request resolved with val
AfterWalletResolved(h, chainId, address, val) ==
  IF h = "testSendTransaction" THEN
    Returned(Response(RequestMethod(h), Str(address), TRUE, val))
  ELSE IF h = "testSignTransaction" THEN
    IF ~IsSerializedTx(val)
    THEN Thrown(NewError(<<"invalid remaining bytes">>))
    ELSE Returned(Response(RequestMethod(h), Str(address),
                           EmbeddedSignatureVerifies(val), val))
  ELSE IF h \in SignHandlers THEN
    LET reference == Split(chainId, ":")[2] IN
    IF Number(reference) \notin rpcProvidersByChainId
    THEN Thrown(NewError(<<"Missing rpcProvider definition for chainId: ">>
                            \o chainId))
    ELSE AwaitOther("awaitVerify", val)
  ELSE \* hederaRpc.testSignAndSendTransaction
    Returned(Response(RequestMethod(h), Str(address), TRUE,
                      JSONStringify(val)))

\* variant: a rejected request is sent again
AfterWalletRetry(h, chainId, address, outcome) ==
  IF ~outcome.ok THEN AwaitWallet(RequestMethod(h), Undefined)
  ELSE AfterWalletResolved(h, chainId, address, outcome.val)

\* continuation after await client.request(...)
AfterWallet(h, chainId, address, outcome) ==
  IF ~outcome.ok THEN Thrown(outcome.err)
  ELSE AfterWalletResolved(h, chainId, address, outcome.val)

\* the test message a signing handler sends
SignMessage(h) ==
  IF h \in {"testSignPersonalMessage", "testEthSign"} THEN PersonalMessage
  ELSE TypedDataMessage

\* variant: every handler verifies against the personal-message hash
VerifyCallPersonalHashOnly(h, address, signature) ==
  [address |-> address, sig |-> signature,
   hash |-> hashPersonalMessage(SignMessage(h))]

\* the arguments a signing handler gives verifySignature
VerifyCall(h, address, signature) ==
  [address |-> address, sig |-> signature,
   hash |-> IF h \in {"testSignPersonalMessage", "testEthSign"}
            THEN hashPersonalMessage(SignMessage(h))
            ELSE hashTypedDataMessage(SignMessage(h))]

\* recovering the signer of sig over hash: the key's address when sig was
\* made over that hash, some unrelated address otherwise
recoverAddress(sig, hash) ==
  IF SubSeq(sig.v, 3, Len(sig.v)) = hash THEN KeyAddress(sig.v[2])
  ELSE <<"0", "x", "f">>

\* verifySignature(address, sig, hash, rpcUrl): resolves with whether the
\* recovered signer is the address, letter case apart; rejects for a value
\* that is no signature or when the RPC endpoint cannot be reached
verifySignature(call) ==
  { Rejected(e, FALSE) : e \in VerifyErrors } \cup
  ( IF IsSignature(call.sig)
    THEN { Resolved(ToLowerCase(recoverAddress(call.sig, call.hash))
                      = ToLowerCase(call.address)) }
    ELSE { Rejected(NewError(<<"invalid signature string">>), FALSE) } )

\* continuation after await verifySignature(address, signature, hash, url)
AfterVerify(h, address, signature, outcome) ==
  IF ~outcome.ok THEN Thrown(outcome.err)
  ELSE Returned(Response(ResponseMethod(h), Str(address), outcome.val,
                         signature))

\* the text of the personal message: a fixed part and the Date.now() stamp
MessagePrefix ==
  << "M", "y", " ", "e", "m", "a", "i", "l", " ", "i", "s", " ", "j", "o",
     "h", "n", "@", "d", "o", "e", ".", "c", "o", "m", " ", "-", " " >>
TestMessage(stamp) == MessagePrefix \o stamp
Stamps == UNION { [1..k -> {"0", "1", "7"}] : k \in 1..MaxStamp }
TestMessages == { TestMessage(stamp) : stamp \in Stamps }

\* variant: personal_sign takes the address first, like eth_sign
SignParamsAddressFirst(h, address, message) ==
  IF h \in {"testSignPersonalMessage", "testEthSign"}
  THEN << address, utf8ToHex(message, TRUE) >>
  ELSE << address, <<TypedDataMessage>> >>

\* the positional params a signing handler puts in its wallet request
SignParams(h, address, message) ==
  IF h = "testSignPersonalMessage"
  THEN << utf8ToHex(message, TRUE), address >>
  ELSE IF h = "testEthSign"
  THEN << address, utf8ToHex(message, TRUE) >>
  ELSE << address, <<TypedDataMessage>> >>

\* ------------------------------------------------------------------------
\* Request display (chains/eip155.ts: getChainRequestRender)
\* ------------------------------------------------------------------------
\* convertHexToNumber
RECURSIVE HexNumber(_)
HexNumber(digits) ==
  IF digits = <<>> THEN 0
  ELSE 16 * HexNumber(SubSeq(digits, 1, Len(digits) - 1))
         + HexValue(digits[Len(digits)])
convertHexToNumber(hex) ==
  HexNumber(IF StartsWith(hex, <<"0", "x">>) THEN SubSeq(hex, 3, Len(hex))
            ELSE hex)

\* JSON.stringify(params, null, "\t") of an array of strings
RECURSIVE JSONStringifyItems(_)
JSONStringifyItems(params) ==
  IF params = <<>> THEN <<>>
  ELSE <<"\n\t\"">> \o Head(params) \o <<"\"">>
         \o (IF Len(params) > 1 THEN <<",">> ELSE <<"\n">>)
         \o JSONStringifyItems(Tail(params))
JSONStringifyParams(params) == <<"[">> \o JSONStringifyItems(params) \o <<"]">>

RenderRow(label, value) == [label |-> label, value |-> value]
\* the rows shown for a request; an absent field of the transaction object
\* is the empty text
getChainRequestRender(request) ==
  LET method == request.method.v[1]
      first == <<RenderRow("Method", request.method.v)>>
  IN
  IF method \in {"eth_sendTransaction", "eth_signTransaction"} THEN
    LET tx == request.params[1] IN
    first \o
    << RenderRow("From", tx.from),
       RenderRow("To", tx.to),
       RenderRow("Gas Limit",
                 IF tx.gas # <<>> THEN <<convertHexToNumber(tx.gas)>>
                 ELSE IF tx.gasLimit # <<>>
                 THEN <<convertHexToNumber(tx.gasLimit)>>
                 ELSE <<>>),
       RenderRow("Gas Price", <<convertHexToNumber(tx.gasPrice)>>),
       RenderRow("Nonce", <<convertHexToNumber(tx.nonce)>>),
       RenderRow("Value",
                 IF tx.value # <<>> THEN <<convertHexToNumber(tx.value)>>
                 ELSE <<>>),
       RenderRow("Data", tx.data) >>
  ELSE IF method = "eth_sign" THEN
    first \o << RenderRow("Address", request.params[1]),
                RenderRow("Message", request.params[2]) >>
  ELSE IF method = "personal_sign" THEN
    first \o << RenderRow("Address", request.params[2]),
                RenderRow("Message", convertHexToUtf8(request.params[1])) >>
  ELSE
    first \o << RenderRow("params", JSONStringifyParams(request.params)) >>

\* no request built yet
NoSignRequest ==
  [by |-> "", address |-> <<>>,
   request |-> [method |-> Undefined, params |-> <<>>]]

\* ------------------------------------------------------------------------
\* _createJsonRpcRequestHandler: preconditions and try / catch / finally
\* ------------------------------------------------------------------------
\* variant: the session check is missing
UninitializedErrorClientOnly(c, s) ==
  IF ~c THEN "WalletConnect is not initialized" ELSE ""

\* the error thrown before the try block, "" when both are defined
UninitializedError(c, s) ==
  IF ~c THEN "WalletConnect is not initialized"
  ELSE IF ~s THEN "Session is not connected"
  ELSE ""

\* the value stored by the catch block: err?.message ?? err
CaughtResult(address, err) ==
  Response(Undefined, Str(address), FALSE,
           IF err.message.t # "undefined" THEN err.message
           ELSE [t |-> err.t, v |-> err.v])

\* variant: no catch block, a throw only runs finally
WrapperSettersNoCatch(step, address) ==
  IF step.k = "return"
  THEN << [set |-> "setResult", val |-> step.resp],
          [set |-> "setPending(false)", val |-> NoResult] >>
  ELSE << [set |-> "setPending(false)", val |-> NoResult] >>

\* variant: the catch block stores the failure twice
WrapperSettersWriteTwice(step, address) ==
  IF step.k = "return"
  THEN << [set |-> "setResult", val |-> step.resp],
          [set |-> "setPending(false)", val |-> NoResult] >>
  ELSE << [set |-> "setResult", val |-> CaughtResult(address, step.err)],
          [set |-> "setResult", val |-> CaughtResult(address, step.err)],
          [set |-> "setPending(false)", val |-> NoResult] >>

\* variant: no finally block, pending is cleared only after a failure
WrapperSettersNoFinally(step, address) ==
  IF step.k = "return"
  THEN << [set |-> "setResult", val |-> step.resp] >>
  ELSE << [set |-> "setResult", val |-> CaughtResult(address, step.err)],
          [set |-> "setPending(false)", val |-> NoResult] >>

\* variant: after a failure the pending flag is left as it is
WrapperSettersPendingKeptOnFailure(step, address) ==
  IF step.k = "return"
  THEN << [set |-> "setResult", val |-> step.resp],
          [set |-> "setPending(false)", val |-> NoResult] >>
  ELSE << [set |-> "setResult", val |-> CaughtResult(address, step.err)] >>

\* the state setters the wrapper calls, in order, once rpcRequest has
\* returned or thrown
WrapperSetters(step, address) ==
  IF step.k = "return"
  THEN << [set |-> "setResult", val |-> step.resp],
          [set |-> "setPending(false)", val |-> NoResult] >>
  ELSE << [set |-> "setResult", val |-> CaughtResult(address, step.err)],
          [set |-> "setPending(false)", val |-> NoResult] >>

\* variant: the catch block rethrows
WrapperEndingRethrow(step) ==
  IF step.k = "return" THEN "returned" ELSE "rejected"

\* how the promise of the invocation ends once rpcRequest returned or threw
WrapperEnding(step) == IF step.k = "return" THEN "returned" ELSE "caught"

\* effect of a sequence of setter calls on the two pieces of state
RECURSIVE PendingAfter(_, _)
PendingAfter(setters, p) ==
  IF setters = <<>> THEN p
  ELSE PendingAfter(Tail(setters),
         IF Head(setters).set = "setPending(false)" THEN FALSE
         ELSE IF Head(setters).set = "setPending(true)" THEN TRUE
         ELSE p)
RECURSIVE ResultAfter(_, _)
ResultAfter(setters, r) ==
  IF setters = <<>> THEN r
  ELSE ResultAfter(Tail(setters),
         IF Head(setters).set = "setResult" THEN Head(setters).val ELSE r)
SetterNames(setters) == [k \in 1..Len(setters) |-> setters[k].set]
WritesResult(setters) ==
  \E k \in 1..Len(setters) : setters[k].set = "setResult"

NoArgs == [h |-> "", chainId |-> <<>>, address |-> <<>>]
NoRequest == [method |-> Undefined, chainId |-> <<>>, params |-> NoParams]
\* variant: the flag is cleared where it should be set
SetPendingWrongValue == << [set |-> "setPending(false)", val |-> NoResult] >>
\* variant: the stored result is reset when a request starts
SetPendingTrueResetsResult ==
  << [set |-> "setPending(true)", val |-> NoResult],
     [set |-> "setResult", val |-> NullResult] >>
\* variant: the stored result is dropped (undefined) before the flag is set
SetPendingTrueAfterClearing ==
  << [set |-> "setResult", val |-> NoResult],
     [set |-> "setPending(true)", val |-> NoResult] >>
SetPendingTrue == << [set |-> "setPending(true)", val |-> NoResult] >>

\* Invocation i goes on with step: either it is parked on an await, or the
\* wrapper's catch / finally run to the end.  before holds the setter calls
\* made earlier in the same run.
Proceed(i, a, before, step) ==
  LET setters == IF step.k = "await" THEN before
                 ELSE before \o WrapperSetters(step, a.address)
  IN
  /\ pending' = PendingAfter(setters, pending)
  /\ result' = ResultAfter(setters, result)
  /\ writer' = IF WritesResult(setters) THEN i ELSE writer
  /\ calls' = [calls EXCEPT ![i] = @ \o SetterNames(setters)]
  /\ log' = log \o (IF before # <<>> THEN <<[e |-> "S", i |-> i]>> ELSE <<>>)
                \o (IF step.k # "await" THEN <<[e |-> "F", i |-> i]>>
                    ELSE <<>>)
  /\ IF step.k = "await"
     THEN /\ pc' = [pc EXCEPT ![i] = step.on]
          /\ args' = [args EXCEPT ![i] = a]
          /\ got' = [got EXCEPT ![i] = step.keep]
          /\ req' = [req EXCEPT ![i] =
                       IF step.on = "awaitWallet"
                       THEN [method |-> step.method, chainId |-> a.chainId,
                             params |-> step.params]
                       ELSE NoRequest]
          /\ nreq' = [nreq EXCEPT ![i] =
                        IF step.on = "awaitWallet" THEN @ + 1 ELSE @]
          /\ ending' = ending
     ELSE /\ pc' = [pc EXCEPT ![i] = "done"]
          /\ args' = [args EXCEPT ![i] = NoArgs]
          /\ got' = [got EXCEPT ![i] = Undefined]
          /\ req' = [req EXCEPT ![i] = NoRequest]
          /\ nreq' = nreq
          /\ ending' = [ending EXCEPT ![i] = WrapperEnding(step)]
  /\ UNCHANGED <<client, session, error, nsVars, txVars, renderVars, apiVars>>

\* the async function throws before its try block: the promise rejects
RejectUninitialized(i, e) ==
  /\ pc' = [pc EXCEPT ![i] = "rejected"]
  /\ ending' = [ending EXCEPT ![i] = "rejected"]
  /\ error' = [error EXCEPT ![i] = e]
  /\ UNCHANGED <<client, session, pending, result, writer, args, got, req,
                 nreq, calls, log, nsVars, txVars, renderVars, apiVars>>

\* invocations are numbered in the order they start
NextToStart(i) ==
  /\ pc[i] = "idle"
  /\ \A j \in Inv : j < i => pc[j] # "idle"

Outstanding(i) == pc[i] \in {"awaitFormat", "awaitWallet", "awaitVerify",
                             "awaitPing"}

\* RequestModal: what is displayed for the pending flag and the stored
\* result; undefined and null are falsy, a response object is truthy
RequestModal(p, r) ==
  IF p THEN [view |-> "pending", title |-> "Pending Request"]
  ELSE IF r.kind = "object"
  THEN [view |-> "result",
        title |-> IF r.valid THEN "Request Approved" ELSE "Request Failed"]
  ELSE [view |-> "empty", title |-> "Request Rejected"]

\* ------------------------------------------------------------------------
\* Actions
\* ------------------------------------------------------------------------
\* a UI action calls handler h of ethereumRpc / hederaRpc / nearRpc
Invoke(i, h, chainId, address) ==
  /\ NextToStart(i)
  /\ LET e == UninitializedError(client, session) IN
     IF e # "" THEN RejectUninitialized(i, e)
     ELSE \E sdkOk \in HederaBuildOutcomes(address) :
            Proceed(i, [h |-> h, chainId |-> chainId, address |-> address],
                    SetPendingTrue,
                    StartRpcRequest(h, chainId, address, sdkOk))

\* formatTestTransaction settles and the handler goes on
SettleFormat(i, outcome, balance) ==
  /\ pc[i] = "awaitFormat"
  /\ Proceed(i, args[i], <<>>,
             AfterFormat(args[i].h, args[i].chainId, args[i].address,
                         outcome, balance))

\* the wallet answers or rejects client.request and the handler goes on
SettleWallet(i, outcome) ==
  /\ pc[i] = "awaitWallet"
  /\ Proceed(i, args[i], <<>>,
             AfterWallet(args[i].h, args[i].chainId, args[i].address,
                         outcome))

\* verifySignature settles and the handler goes on
SettleVerify(i, outcome) ==
  /\ pc[i] = "awaitVerify"
  /\ Proceed(i, args[i], <<>>,
             AfterVerify(args[i].h, args[i].address, got[i], outcome))

\* variant: a failed ping stores null, as the outer catch block would
PingResponseNullOnFailure(valid) ==
  IF valid
  THEN Response(Str(<<"ping">>), Undefined, TRUE, Str(<<"Ping succeeded">>))
  ELSE NullResult

\* ping(): precondition, setPending(true), await client.ping
PingResponse(valid) ==
  Response(Str(<<"ping">>), Undefined, valid,
           IF valid THEN Str(<<"Ping succeeded">>)
           ELSE Str(<<"Ping failed">>))

InvokePing(i) ==
  /\ NextToStart(i)
  /\ LET e == UninitializedError(client, session) IN
     IF e # "" THEN RejectUninitialized(i, e)
     ELSE Proceed(i, [h |-> "ping", chainId |-> <<>>, address |-> <<>>],
                  SetPendingTrue, AwaitOther("awaitPing", Undefined))

\* client.ping settles: the inner try/catch turns it into valid, then
\* setResult and the finally block run
SettlePing(i, outcome) ==
  /\ pc[i] = "awaitPing"
  /\ Proceed(i, args[i], <<>>, Returned(PingResponse(outcome.ok)))

\* the WalletConnect client is created; a session is established or ends
InitClient ==
  /\ ~client
  /\ client' = TRUE
  /\ UNCHANGED <<session, pending, result, writer, pc, args, got, req, nreq,
                 calls, ending, error, log, nsVars, txVars, renderVars, apiVars>>
Connect ==
  /\ client /\ ~session
  /\ session' = TRUE
  /\ UNCHANGED <<client, pending, result, writer, pc, args, got, req, nreq,
                 calls, ending, error, log, nsVars, txVars, renderVars, apiVars>>
Disconnect ==
  /\ session
  /\ session' = FALSE
  /\ UNCHANGED <<client, pending, result, writer, pc, args, got, req, nreq,
                 calls, ending, error, log, nsVars, txVars, renderVars, apiVars>>

\* the resolver is applied to the chain list of a connection attempt
CallGetRequiredNamespaces ==
  /\ requiredNamespaces = NotCalled
  /\ requiredNamespaces' = Called(getRequiredNamespaces(inputChains))
  /\ UNCHANGED <<inputChains, optionalNamespaces, selectedNamespaces,
                 rpcVars, txVars, renderVars, apiVars>>
CallGetOptionalNamespaces ==
  /\ optionalNamespaces = NotCalled
  /\ optionalNamespaces' = Called(getOptionalNamespaces(inputChains))
  /\ UNCHANGED <<inputChains, requiredNamespaces, selectedNamespaces,
                 rpcVars, txVars, renderVars, apiVars>>
CallGetNamespacesFromChains ==
  /\ selectedNamespaces = NotCalled
  /\ selectedNamespaces' = Called(Return(getNamespacesFromChains(inputChains)))
  /\ UNCHANGED <<inputChains, requiredNamespaces, optionalNamespaces,
                 rpcVars, txVars, renderVars, apiVars>>

\* HederaParamsFactory is applied to the transaction: the object is mutated
\* in place and the payload returned
Build(factory, type) ==
  /\ Len(built) < MaxBuilds
  /\ LET r == BuildPayload(factory, type, txObject) IN
     /\ txObject' = r.tx
     /\ built' = Append(built, [factory |-> factory, type |-> type,
                                before |-> txObject, after |-> r.tx,
                                calls |-> r.calls, payload |-> r.payload])
  /\ UNCHANGED <<nsVars, rpcVars, renderVars, apiVars>>

\* a signing handler builds the request it sends for the test message
BuildSignRequest(h, address) ==
  /\ signRequest = NoSignRequest
  /\ signRequest' =
       [by |-> h, address |-> address,
        request |-> [method |-> RequestMethod(h),
                     params |-> SignParams(h, address, signMessage)]]
  /\ UNCHANGED <<signMessage, rendered, nsVars, rpcVars, txVars, apiVars>>

\* the request is shown: getChainRequestRender(request)
Render ==
  /\ signRequest # NoSignRequest
  /\ rendered = <<>>
  /\ rendered' = getChainRequestRender(signRequest.request)
  /\ UNCHANGED <<signMessage, signRequest, nsVars, rpcVars, txVars, apiVars>>

\* a caller awaits one of the chain-RPC helpers; net is recorded for a
\* call that sent a request
ApiCalled(fn, api, chainId, net, out) ==
  /\ Len(apiCalls) < MaxApiCalls
  /\ apiCalls' = Append(apiCalls,
                        [fn |-> fn, api |-> api, chainId |-> chainId,
                         net |-> IF out.requests = <<>> THEN <<>>
                                 ELSE <<net>>,
                         out |-> out])
  /\ UNCHANGED <<nsVars, rpcVars, txVars, renderVars>>
CallApiGetAccountBalance(api, address, chainId, net) ==
  ApiCalled("apiGetAccountBalance", api, chainId, net,
            apiGetAccountBalance(api, address, chainId, net))
CallApiGetAccountNonce(api, address, chainId, net) ==
  ApiCalled("apiGetAccountNonce", api, chainId, net,
            apiGetAccountNonce(api, address, chainId, net))
CallApiGetGasPrice(api, chainId, net) ==
  ApiCalled("apiGetGasPrice", api, chainId, net,
            apiGetGasPrice(api, chainId, net))

\* ------------------------------------------------------------------------
\* Specifications
\* ------------------------------------------------------------------------
InitRpc ==
  /\ client = FALSE /\ session = FALSE
  /\ pending = FALSE /\ result = NoResult /\ writer = 0
  /\ pc = [i \in Inv |-> "idle"]
  /\ args = [i \in Inv |-> NoArgs]
  /\ got = [i \in Inv |-> Undefined]
  /\ req = [i \in Inv |-> NoRequest]
  /\ nreq = [i \in Inv |-> 0]
  /\ calls = [i \in Inv |-> <<>>]
  /\ ending = [i \in Inv |-> "none"]
  /\ error = [i \in Inv |-> ""]
  /\ log = <<>>

\* nothing built for display
InitRenderIdle ==
  /\ signMessage = <<>>
  /\ signRequest = NoSignRequest
  /\ rendered = <<>>
  /\ apiCalls = <<>>

\* Spec: every handler on every input, one invocation at a time
Init ==
  /\ InitRpc
  /\ InitRenderIdle
  /\ inputChains = <<>>
  /\ requiredNamespaces = NotCalled
  /\ optionalNamespaces = NotCalled
  /\ selectedNamespaces = NotCalled
  /\ txObject = NewTransferTransaction
  /\ built = <<>>

NoneOutstanding == \A j \in Inv : ~Outstanding(j)

Next ==
  \/ \E i \in Inv, h \in Handlers, in \in Inputs :
       NoneOutstanding /\ Invoke(i, h, in[1], in[2])
  \/ \E i \in Inv : NoneOutstanding /\ InvokePing(i)
  \/ \E i \in Inv, o \in FormatOutcomes, b \in Balances : SettleFormat(i, o, b)
  \/ \E i \in Inv, o \in WalletOutcomes : SettleWallet(i, o)
  \/ \E i \in Inv, o \in VerifyOutcomes : SettleVerify(i, o)
  \/ \E i \in Inv, o \in PingOutcomes : SettlePing(i, o)
  \/ InitClient
  \/ Connect
  \/ Disconnect

Spec == Init /\ [][Next]_vars

\* SpecOverlap: invocations may overlap; a reduced set of handlers
OverlapHandlers ==
  { "testSignPersonalMessage", "hederaTestSignAndSendTransaction" }
OverlapInputs == { <<ChainEip155_1, AddrA>> }
OverlapWalletOutcomes ==
  { Resolved(Signature("a", hashPersonalMessage(PersonalMessage))),
    Rejected(RpcError(<<"User rejected">>), Undefined) }

NextOverlap ==
  \/ \E i \in Inv, h \in OverlapHandlers, in \in OverlapInputs :
       Invoke(i, h, in[1], in[2])
  \/ \E i \in Inv : InvokePing(i)
  \/ \E i \in Inv, o \in OverlapWalletOutcomes : SettleWallet(i, o)
  \/ \E i \in Inv, o \in VerifyOutcomes : SettleVerify(i, o)
  \/ \E i \in Inv, o \in PingOutcomes : SettlePing(i, o)
  \/ InitClient
  \/ Connect
  \/ Disconnect

SpecOverlap == Init /\ [][NextOverlap]_vars

\* SpecNs: the namespace resolver on every chain list up to MaxChains
InitNs ==
  /\ InitRpc
  /\ InitRenderIdle
  /\ inputChains \in ChainLists(MaxChains)
  /\ requiredNamespaces = NotCalled
  /\ optionalNamespaces = NotCalled
  /\ selectedNamespaces = NotCalled
  /\ txObject = NewTransferTransaction
  /\ built = <<>>

NextNs ==
  \/ CallGetRequiredNamespaces
  \/ CallGetOptionalNamespaces
  \/ CallGetNamespacesFromChains

SpecNs == InitNs /\ [][NextNs]_vars

\* SpecHedera: the Hedera factory applied up to MaxBuilds times to one
\* transaction
InitHedera ==
  /\ InitRpc
  /\ InitRenderIdle
  /\ inputChains = <<>>
  /\ requiredNamespaces = NotCalled
  /\ optionalNamespaces = NotCalled
  /\ selectedNamespaces = NotCalled
  /\ txObject \in Transactions
  /\ built = <<>>

NextHedera == \E factory \in Factories, type \in RequestTypes :
                Build(factory, type)

SpecHedera == InitHedera /\ [][NextHedera]_vars

\* SpecSign: the EIP-155 signing handlers with a wallet that answers with
\* signatures and signed transactions, one invocation at a time
SignSpecHandlers == SignHandlers \cup {"testSignTransaction"}
SignInputs ==
  { <<ChainEip155_1, AddrA>>, <<ChainEip155_999, AddrA>>,
    <<ChainEip155_1, AddrB>> }
SignWalletOutcomes ==
  { Resolved(Signature(key, hash)) :
      key \in {"a", "b"},
      hash \in { hashPersonalMessage(PersonalMessage),
                 hashTypedDataMessage(TypedDataMessage) } }
  \cup { Resolved(SignedTx("a", "sent", "ok")),
         Resolved(SignedTx("b", "other", "ok")),
         Resolved(SignedTx("a", "sent", "bad")),
         Rejected(RpcError(<<"User rejected">>), Undefined) }
SignFormatOutcomes == { Resolved([gasPrice |-> 1, gasLimit |-> 2]) }

NextSign ==
  \/ \E i \in Inv, h \in SignSpecHandlers, in \in SignInputs :
       NoneOutstanding /\ Invoke(i, h, in[1], in[2])
  \/ \E i \in Inv, o \in SignFormatOutcomes : SettleFormat(i, o, 4)
  \/ \E i \in Inv, o \in SignWalletOutcomes : SettleWallet(i, o)
  \/ \E i \in Inv :
       \E o \in verifySignature(VerifyCall(args[i].h, args[i].address,
                                           got[i])) : SettleVerify(i, o)
  \/ InitClient
  \/ Connect
  \/ Disconnect

SpecSign == Init /\ [][NextSign]_vars

\* SpecRender: each signing handler builds its request for a test message
\* and the request is rendered
InitRender ==
  /\ InitRpc
  /\ inputChains = <<>>
  /\ requiredNamespaces = NotCalled
  /\ optionalNamespaces = NotCalled
  /\ selectedNamespaces = NotCalled
  /\ txObject = NewTransferTransaction
  /\ built = <<>>
  /\ signMessage \in TestMessages
  /\ signRequest = NoSignRequest
  /\ rendered = <<>>
  /\ apiCalls = <<>>

NextRender ==
  \/ \E h \in SignHandlers, address \in {AddrA, AddrB} :
       BuildSignRequest(h, address)
  \/ Render

SpecRender == InitRender /\ [][NextRender]_vars

\* SpecApi: up to MaxApiCalls calls of the chain-RPC helpers
NextApi ==
  \/ \E api \in ApiModules, chainId \in ApiChainIds, net \in NetOutcomes :
       CallApiGetAccountBalance(api, AddrA, chainId, net)
  \/ \E api \in ApiModules, chainId \in ApiChainIds, net \in NetOutcomes :
       CallApiGetAccountNonce(api, AddrA, chainId, net)
  \/ \E api \in ApiModules, chainId \in ApiChainIds, net \in NetOutcomes :
       CallApiGetGasPrice(api, chainId, net)

SpecApi == Init /\ [][NextApi]_vars

\* FairSpec: Spec, where a verifySignature call that can settle does settle
FairSpec ==
  Spec /\ WF_vars(\E i \in Inv, o \in VerifyOutcomes : SettleVerify(i, o))

\* ------------------------------------------------------------------------
\* Properties
\* ------------------------------------------------------------------------
\* positions in the start / finish log
RECURSIVE LogIndex(_, _, _)
LogIndex(e, i, k) ==
  IF k > Len(log) THEN 0
  ELSE IF log[k] = [e |-> e, i |-> i] THEN k
  ELSE LogIndex(e, i, k + 1)
StartOf(i) == LogIndex("S", i, 1)
FinishOf(i) == LogIndex("F", i, 1)
\* i and j were in flight at the same time
Overlapped(i, j) ==
  /\ i # j
  /\ StartOf(i) > 0 /\ StartOf(j) > 0
  /\ FinishOf(i) = 0 \/ StartOf(j) < FinishOf(i)
  /\ FinishOf(j) = 0 \/ StartOf(i) < FinishOf(j)
\* the invocation that started last / finished last (0: none)
LastStarted ==
  IF \E i \in Inv : StartOf(i) > 0
  THEN CHOOSE i \in Inv :
         StartOf(i) > 0 /\ \A j \in Inv : StartOf(j) <= StartOf(i)
  ELSE 0
LastFinished ==
  IF \E i \in Inv : FinishOf(i) > 0
  THEN CHOOSE i \in Inv :
         FinishOf(i) > 0 /\ \A j \in Inv : FinishOf(j) <= FinishOf(i)
  ELSE 0

ExpectedCalls == <<"setPending(true)", "setResult", "setPending(false)">>

\* C1: when rpcRequest throws or rejects, the result that invocation stores
\* has valid = false and a non-empty string in result.
C1_CaughtResultIsNonEmptyString ==
  \A i \in Inv :
    (ending[i] = "caught" /\ writer = i) =>
      /\ result.kind = "object"
      /\ result.valid = FALSE
      /\ result.result.t = "string"
      /\ result.result.v # <<>>

\* C2 as stated: the promise of a handler never rejects.
C2_NeverRejects == \A i \in Inv : ending[i] # "rejected"

\* C2 amended: the promise of a handler rejects only when the handler is
\* called while client or session is undefined; once past that check every
\* invocation that completes resolves, having stored a response object.
C2_RejectsOnlyUninitialized ==
  [][\A i \in Inv :
       /\ (ending[i] # "rejected" /\ ending'[i] = "rejected")
            => (pc[i] = "idle" /\ ~(client /\ session))
       /\ (pc[i] # "done" /\ pc'[i] = "done")
            => /\ ending'[i] \in {"returned", "caught"}
               /\ writer' = i
               /\ result'.kind = "object"]_vars
C2_Witness ==
  \E i \in Inv : ending[i] = "caught" /\ writer = i /\ nreq[i] = 1

\* C3: a handler or ping called while client or session is undefined fails
\* with the matching "uninitialized" error and touches nothing: no request,
\* no setter call, pending and result as before.
C3_UninitializedFailsFirst ==
  [][\A i \in Inv :
       (pc[i] = "idle" /\ pc'[i] # "idle" /\ ~(client /\ session)) =>
         /\ pc'[i] = "rejected"
         /\ error'[i] = (IF ~client THEN "WalletConnect is not initialized"
                         ELSE "Session is not connected")
         /\ nreq'[i] = 0 /\ req'[i] = NoRequest /\ calls'[i] = <<>>
         /\ pending' = pending /\ result' = result /\ writer' = writer]_vars
C3_Witness ==
  \E i \in Inv :
    /\ pc[i] = "rejected" /\ error[i] = "Session is not connected"
    /\ result.kind = "object"

\* C4: once the wallet request of an invocation has settled, the invocation
\* eventually completes having called setResult exactly once and then
\* setPending(false).
C4_SettledRequestWritesOnce ==
  \A i \in Inv :
    (nreq[i] = 1 /\ pc[i] # "awaitWallet")
      ~> (pc[i] = "done" /\ calls[i] = ExpectedCalls)
C4_Witness ==
  \E i \in Inv :
    /\ pc[i] = "done" /\ nreq[i] = 1 /\ calls[i] = ExpectedCalls
    /\ ending[i] = "returned" /\ ~pending

\* C5: an invocation sends at most one wallet request; after a failure it
\* is over, with the failure stored and no request in flight.
C5_AtMostOneRequest ==
  \A i \in Inv :
    /\ nreq[i] <= 1
    /\ (ending[i] = "caught" /\ writer = i) =>
         (pc[i] = "done" /\ req[i] = NoRequest /\ ~result.valid)
C5_Witness ==
  \E i \in Inv : ending[i] = "caught" /\ writer = i /\ nreq[i] = 1

\* C6 as stated: while any invocation is outstanding, pending is true.
C6_PendingWhileOutstanding == (\E i \in Inv : Outstanding(i)) => pending

\* C6 amended: while an invocation is outstanding and no invocation has
\* finished since it started, pending is true.
C6_PendingUntilAnyFinish ==
  \A i \in Inv :
    (Outstanding(i) /\ \A j \in Inv : FinishOf(j) < StartOf(i)) => pending
C6_Witness ==
  \E i, j \in Inv : i < j /\ Outstanding(i) /\ Outstanding(j) /\ pending

\* C7 as stated: once two overlapping invocations have both settled, the
\* stored result is the one of the invocation that started last.
C7_LastStartedWins ==
  (NoneOutstanding /\ \E i, j \in Inv : Overlapped(i, j))
    => writer = LastStarted

\* C7 amended: once two overlapping invocations have both settled, the
\* stored result is the one of the invocation that settled last.
C7_LastSettledWins ==
  (NoneOutstanding /\ \E i, j \in Inv : Overlapped(i, j))
    => (writer = LastFinished /\ result.kind = "object")
C7_Witness ==
  /\ NoneOutstanding
  /\ \E i, j \in Inv : Overlapped(i, j)
  /\ writer # LastStarted

\* the namespace a handler belongs to
NsNear == <<"n", "e", "a", "r">>
HandlerNamespace(h) ==
  IF h \in TxHandlers \cup SignHandlers THEN NsEip155
  ELSE IF h = "hederaTestSignAndSendTransaction" THEN NsHedera
  ELSE NsNear
\* method m is in the required or optional list the resolver gives for ns
Declared(ns, m) ==
  LET r == getSupportedRequiredMethodsByNamespace(ns)
      o == getSupportedOptionalMethodsByNamespace(ns)
  IN /\ ~r.threw /\ ~o.threw
     /\ m.t = "string"
     /\ \/ \E k \in 1..Len(r.val) : m.v = <<r.val[k]>>
        \/ \E k \in 1..Len(o.val) : m.v = <<o.val[k]>>

\* C8: every wallet request carries a method that the resolver declares for
\* the namespace of the handler that sent it.
C8_SentMethodIsDeclared ==
  \A i \in Inv :
    pc[i] = "awaitWallet" => Declared(HandlerNamespace(args[i].h), req[i].method)

HasUnsupportedNamespace(cs) ==
  \E k \in 1..Len(cs) : Split(cs[k], ":")[1] \notin {NsEip155, NsHedera}
HasSupportedNamespace(cs) ==
  \E k \in 1..Len(cs) : Split(cs[k], ":")[1] \in {NsEip155, NsHedera}

\* C9: for a chain list with an unsupported namespace both resolver calls
\* throw and give no map, not even for the supported namespaces in it.
C9_UnsupportedNamespaceThrows ==
  HasUnsupportedNamespace(inputChains) =>
    /\ requiredNamespaces.called =>
         (requiredNamespaces.out.threw /\ requiredNamespaces.out.val = <<>>)
    /\ optionalNamespaces.called =>
         (optionalNamespaces.out.threw /\ optionalNamespaces.out.val = <<>>)
C9_Witness ==
  /\ HasUnsupportedNamespace(inputChains)
  /\ HasSupportedNamespace(inputChains)
  /\ Split(inputChains[1], ":")[1] = NsHedera
  /\ requiredNamespaces.called /\ requiredNamespaces.out.threw
  /\ optionalNamespaces.called /\ optionalNamespaces.out.threw

\* a chain id whose reference is not in the chain table of its namespace
HasUnknownReference(cs) ==
  \E k \in 1..Len(cs) :
    LET parts == Split(cs[k], ":") IN
    \/ /\ parts[1] = NsEip155
       /\ (Len(parts) < 2 \/ Number(parts[2]) \notin EIP155ChainData)
    \/ /\ parts[1] = NsHedera
       /\ (Len(parts) < 2 \/ parts[2] \notin HederaChainData)
NoEmptyMethods(call) ==
  (call.called /\ ~call.out.threw) =>
    \A k \in 1..Len(call.out.val) : call.out.val[k].methods # <<>>

\* C10 as stated: a reference outside the chain table makes resolution
\* throw, and no returned entry has an empty methods list.
C10_UnknownReferenceThrows ==
  /\ HasUnknownReference(inputChains) =>
       /\ requiredNamespaces.called => requiredNamespaces.out.threw
       /\ optionalNamespaces.called => optionalNamespaces.out.threw
  /\ NoEmptyMethods(requiredNamespaces)
  /\ NoEmptyMethods(optionalNamespaces)

\* C10 amended: resolution throws exactly when some chain's namespace is not
\* eip155 or hedera (the reference is not looked up); required entries never
\* have an empty methods list, optional entries have one exactly for hedera.
C10_OnlyNamespaceIsChecked ==
  /\ requiredNamespaces.called =>
       (requiredNamespaces.out.threw <=> HasUnsupportedNamespace(inputChains))
  /\ optionalNamespaces.called =>
       (optionalNamespaces.out.threw <=> HasUnsupportedNamespace(inputChains))
  /\ NoEmptyMethods(requiredNamespaces)
  /\ (optionalNamespaces.called /\ ~optionalNamespaces.out.threw) =>
       \A k \in 1..Len(optionalNamespaces.out.val) :
         (optionalNamespaces.out.val[k].methods = <<>>)
           <=> (optionalNamespaces.out.val[k].namespace = NsHedera)
C10_Witness ==
  /\ HasUnknownReference(inputChains)
  /\ \E k \in 1..Len(inputChains) : inputChains[k] = ChainHederaMainnet
  /\ \E k \in 1..Len(inputChains) : inputChains[k] = ChainEip155_999
  /\ requiredNamespaces.called /\ ~requiredNamespaces.out.threw
  /\ optionalNamespaces.called /\ ~optionalNamespaces.out.threw

\* the namespaces of a chain list, as a set; the namespace is the text
\* before the first ":" (the whole text when there is none)
NamespaceOf(chainId) ==
  LET k == IndexOf(chainId, ":", 1) IN
  IF k = 0 THEN chainId ELSE SubSeq(chainId, 1, k - 1)
NamespacesIn(cs) == { NamespaceOf(cs[k]) : k \in 1..Len(cs) }
\* the method names each namespace's own enums declare
Registry(ns) ==
  IF ns = NsEip155
  THEN { DEFAULT_EIP155_METHODS[k] : k \in 1..Len(DEFAULT_EIP155_METHODS) }
       \cup { DEFAULT_EIP155_OPTIONAL_METHODS[k] :
                k \in 1..Len(DEFAULT_EIP155_OPTIONAL_METHODS) }
  ELSE IF ns = NsHedera
  THEN { DEFAULT_HEDERA_METHODS[k] : k \in 1..Len(DEFAULT_HEDERA_METHODS) }
  ELSE {}
OneEntryPerNamespace(call, cs) ==
  call.called =>
    /\ ~call.out.threw
    /\ Len(call.out.val) = Cardinality(NamespacesIn(cs))
    /\ \A ns \in NamespacesIn(cs) :
         Cardinality({ k \in 1..Len(call.out.val) :
                         call.out.val[k].namespace = ns }) = 1
    /\ \A k \in 1..Len(call.out.val) :
         LET e == call.out.val[k] IN
         /\ e.namespace \in NamespacesIn(cs)
         /\ \A m \in 1..Len(e.methods) :
              /\ e.methods[m] \in Registry(e.namespace)
              /\ \A other \in {NsEip155, NsHedera} \ {e.namespace} :
                   e.methods[m] \notin Registry(other)

\* C11: for a chain list over the supported namespaces, each resolver call
\* returns exactly one entry per distinct namespace of the list, and the
\* methods of an entry all come from the registry of its own namespace and
\* from no other.
C11_OneEntryPerNamespaceOwnMethods ==
  ~HasUnsupportedNamespace(inputChains) =>
    /\ OneEntryPerNamespace(requiredNamespaces, inputChains)
    /\ OneEntryPerNamespace(optionalNamespaces, inputChains)
C11_Witness ==
  /\ Len(inputChains) = 3
  /\ NamespacesIn(inputChains) = {NsEip155, NsHedera}
  /\ requiredNamespaces.called /\ Len(requiredNamespaces.out.val) = 2
  /\ optionalNamespaces.called /\ Len(optionalNamespaces.out.val) = 2

\* C12: getNamespacesFromChains returns the namespaces of the list in order
\* of first occurrence, none repeated, all of them and nothing else.
C12_NamespacesInFirstSeenOrder ==
  selectedNamespaces.called =>
    LET out == selectedNamespaces.out.val
        FirstAt(ns) == CHOOSE k \in 1..Len(inputChains) :
                         /\ NamespaceOf(inputChains[k]) = ns
                         /\ \A j \in 1..(k - 1) :
                              NamespaceOf(inputChains[j]) # ns
    IN /\ ~selectedNamespaces.out.threw
       /\ { out[k] : k \in 1..Len(out) } = NamespacesIn(inputChains)
       /\ \A j, k \in 1..Len(out) : j # k => out[j] # out[k]
       /\ \A j, k \in 1..Len(out) :
            j < k => FirstAt(out[j]) < FirstAt(out[k])
C12_Witness ==
  /\ selectedNamespaces.called
  /\ Len(inputChains) = 3
  /\ selectedNamespaces.out.val = <<NsHedera, NsEip155>>
  /\ NamespaceOf(inputChains[3]) = NsHedera

\* decoding of base64 text back to bytes
Base64Index(c) == CHOOSE n \in 0..63 : Base64Alphabet[n + 1] = c
RECURSIVE Base64Decode(_)
Base64Decode(s) ==
  IF Len(s) < 4 THEN <<>>
  ELSE LET a == Base64Index(s[1])
           b == Base64Index(s[2])
       IN IF s[3] = "=" THEN << a * 4 + b \div 16 >>
          ELSE LET c == Base64Index(s[3]) IN
               IF s[4] = "="
               THEN << a * 4 + b \div 16, (b % 16) * 16 + c \div 4 >>
               ELSE << a * 4 + b \div 16, (b % 16) * 16 + c \div 4,
                       (c % 4) * 64 + Base64Index(s[4]) >>
                    \o Base64Decode(SubSeq(s, 5, Len(s)))
HasNodeIds(tx) == tx.nodeAccountIds.t = "array" /\ tx.nodeAccountIds.v # <<>>
\* the payload bytes stand for the serialized bytes of tx
BytesOf(payload, tx) ==
  IF payload.bytes.t = "string"
  THEN Base64Decode(payload.bytes.v) = toBytes(tx)
  ELSE payload.bytes.t = "Uint8Array" /\ payload.bytes.v = toBytes(tx)

\* C13: after the factory has built a payload, the transaction has node ids
\* and is frozen and the payload bytes are those of the transaction in that
\* state; node ids already there are kept, node id 3 is set only when there
\* were none, and neither freeze nor setNodeAccountIds is called on a frozen
\* transaction.
C13_PayloadFromPreparedTransaction ==
  \A k \in 1..Len(built) :
    LET e == built[k] IN
    /\ HasNodeIds(e.after) /\ e.after.frozen
    /\ k = Len(built) => txObject = e.after
    /\ BytesOf(e.payload, e.after)
    /\ e.after.body = e.before.body
    /\ e.after.nodeAccountIds.v =
         (IF HasNodeIds(e.before) THEN e.before.nodeAccountIds.v ELSE <<3>>)
    /\ (\E c \in 1..Len(e.calls) : e.calls[c].call = "setNodeAccountIds")
         <=> ~HasNodeIds(e.before)
    /\ \A c \in 1..Len(e.calls) :
         /\ e.calls[c].call \in {"freeze", "setNodeAccountIds"}
              => ~e.calls[c].frozen
         /\ e.calls[c].call = "toBytes" => e.calls[c].frozen
C13_Witness ==
  /\ Len(built) = 2
  /\ built[1].before.nodeAccountIds = Array(<<4, 3>>)
  /\ built[1].before.frozen
  /\ built[2].factory = "buildTransactionPayload"
  /\ txObject.nodeAccountIds = Array(<<4, 3>>)

\* C14: a second call of the factory on the same transaction leaves the
\* node ids and the frozen state as the first call left them and returns
\* the same type and bytes as the first call.
C14_SecondBuildIsIdempotent ==
  \A j, k \in 1..Len(built) :
    j < k =>
      /\ built[k].after = built[j].after
      /\ built[k].before = built[k].after
      /\ (built[j].factory = built[k].factory
            /\ built[j].type = built[k].type)
           => built[k].payload = built[j].payload
C14_Witness ==
  /\ Len(built) = 2
  /\ built[1].factory = built[2].factory /\ built[1].type = built[2].type
  /\ built[1].before.nodeAccountIds = Null
  /\ built[1].before # built[1].after
  /\ built[2].payload = built[1].payload

\* C15: the wallet request of hederaRpc.testSignAndSendTransaction carries
\* transaction.type = the request type's string form and transaction.bytes
\* = the base64 text of the frozen transaction's serialized bytes.
C15_SentBytesAreBase64 ==
  \A i \in Inv :
    (pc[i] = "awaitWallet" /\ args[i].h = "hederaTestSignAndSendTransaction")
      => /\ req[i].params.type = Str(<<RequestTypeToString(CryptoTransfer)>>)
         /\ req[i].params.bytes.t = "string"
         /\ Base64Decode(req[i].params.bytes.v) =
              toBytes([nodeAccountIds |-> Array(<<3>>), frozen |-> TRUE,
                       body |-> NewTransferTransaction.body])

\* the hash of the message handler h sent
HashSent(h) ==
  IF h \in {"testSignPersonalMessage", "testEthSign"}
  THEN <<"keccak256", "personal", PersonalMessage>>
  ELSE <<"keccak256", "typedData", TypedDataMessage>>
\* the signer recovered from sig over the hash of the message h sent is the
\* requesting address, letter case apart
SignerMatches(sig, h, address) ==
  /\ IsSignature(sig)
  /\ ToLowerCase(recoverAddress(sig, HashSent(h))) = ToLowerCase(address)
HasRpcProvider(chainId) ==
  Number(Split(chainId, ":")[2]) \in rpcProvidersByChainId

\* C16 as stated: for personal_sign, eth_sign and typed-data signing the
\* stored response has valid = true exactly when the signer recovered from
\* the returned signature equals the requesting address.
C16_ValidIffSignerMatches ==
  [][\A i \in Inv :
       /\ \A o \in SignWalletOutcomes :
            (/\ SettleWallet(i, o)
             /\ args[i].h \in SignHandlers /\ o.ok /\ IsSignature(o.val)
             /\ pc'[i] = "done")
              => (result'.valid
                    <=> SignerMatches(o.val, args[i].h, args[i].address))
       /\ (pc[i] = "awaitVerify" /\ pc'[i] = "done")
            => (result'.valid
                  <=> SignerMatches(got[i], args[i].h, args[i].address))]_vars

\* C16 amended: valid = true exactly when an RPC provider is defined for
\* the chain's reference, the verification call completes and the
\* recovered signer equals the requesting address, letter case apart;
\* without a provider the handler throws before verifying, and a signature
\* made with another key never gives valid = true.
C16_ValidIffVerifiedSignerMatches ==
  [][\A i \in Inv :
       /\ \A o \in SignWalletOutcomes :
            (SettleWallet(i, o) /\ args[i].h \in SignHandlers /\ o.ok)
              => IF HasRpcProvider(args[i].chainId)
                 THEN pc'[i] = "awaitVerify" /\ got'[i] = o.val
                 ELSE /\ pc'[i] = "done" /\ ending'[i] = "caught"
                      /\ writer' = i /\ ~result'.valid
       /\ (pc[i] = "awaitVerify" /\ pc'[i] = "done")
            => /\ writer' = i
               /\ result'.valid
                    <=> (/\ ending'[i] = "returned"
                         /\ SignerMatches(got[i], args[i].h,
                                          args[i].address))]_vars
C16_Witness ==
  \E i \in Inv :
    /\ pc[i] = "done" /\ writer = i /\ ending[i] = "returned"
    /\ result.valid
    /\ result.address = Str(AddrA)
    /\ result.result = Signature("a", hashTypedDataMessage(TypedDataMessage))

\* C17: for eth_signTransaction, valid is the outcome of verifying the
\* signature embedded in the signed transaction the wallet returned; the
\* key that signed, the requesting address and the transaction that was
\* sent take no part, so a well-formed transaction signed by any key gives
\* valid = true.
C17_ValidIsEmbeddedSignatureCheck ==
  [][\A i \in Inv : \A o \in SignWalletOutcomes :
       (/\ SettleWallet(i, o)
        /\ args[i].h = "testSignTransaction"
        /\ o.ok /\ o.val.t = "string" /\ o.val.v[1] = "tx")
         => /\ pc'[i] = "done" /\ ending'[i] = "returned" /\ writer' = i
            /\ result'.result = o.val
            /\ result'.address = Str(args[i].address)
            /\ result'.valid <=> (o.val.v[4] = "ok")]_vars
C17_Witness ==
  \E i \in Inv :
    /\ pc[i] = "done" /\ writer = i /\ ending[i] = "returned"
    /\ result.valid
    /\ result.address = Str(AddrA)
    /\ result.result = SignedTx("b", "other", "ok")

\* C18: the Hedera handler verifies nothing: whatever the wallet resolves
\* with, the stored response has valid = true and result = the JSON text of
\* that answer; a Hedera request ends with valid = false only through the
\* catch block (a thrown error or a rejected request).
C18_HederaStoresAnswerUnverified ==
  [][\A i \in Inv :
       /\ \A o \in WalletOutcomes :
            (/\ SettleWallet(i, o)
             /\ args[i].h = "hederaTestSignAndSendTransaction")
              => /\ pc'[i] = "done" /\ writer' = i
                 /\ result'.address = Str(args[i].address)
                 /\ o.ok => /\ ending'[i] = "returned"
                            /\ result'.valid
                            /\ result'.result = JSONStringify(o.val)
                            /\ o.val.t # "undefined"
                                 => result'.result.t = "string"
                 /\ ~o.ok => (ending'[i] = "caught" /\ ~result'.valid)
       /\ \A in \in Inputs :
            (/\ Invoke(i, "hederaTestSignAndSendTransaction", in[1], in[2])
             /\ pc'[i] = "done")
              => (ending'[i] = "caught" /\ ~result'.valid)]_vars
C18_Witness ==
  \E i \in Inv :
    /\ pc[i] = "done" /\ writer = i /\ ending[i] = "returned"
    /\ result.valid
    /\ result.address = Str(AddrHedera)
    /\ result.result = Str(<<"{nodeId:3}">>)

\* C19: the promise of an invocation resolves only when the invocation has
\* made all its writes (setPending(true), one setResult, setPending(false))
\* and has nothing in flight; once resolved it makes no further write.
C19_ResolvesAfterAllWrites ==
  [][\A i \in Inv :
       /\ (ending[i] = "none" /\ ending'[i] \in {"returned", "caught"})
            => /\ pc'[i] = "done" /\ req'[i] = NoRequest
               /\ calls'[i] = ExpectedCalls
               /\ writer' = i /\ result'.kind = "object" /\ ~pending'
       /\ ending[i] \in {"returned", "caught"}
            => /\ calls'[i] = calls[i] /\ nreq'[i] = nreq[i]
               /\ pc'[i] = "done" /\ ending'[i] = ending[i]]_vars
C19_Witness ==
  \E i, j \in Inv :
    /\ i < j
    /\ ending[i] = "returned" /\ calls[i] = ExpectedCalls /\ nreq[i] = 1
    /\ pc[j] = "done" /\ writer = j

\* C20: an invocation that has sent its wallet request has written no
\* result and has not cleared pending, and it leaves that state only by the
\* wallet request settling: nothing else (no timeout, no cancellation, no
\* other invocation) makes it go on or write.
C20_WritesOnlyAfterWalletSettles ==
  [][\A i \in Inv :
       pc[i] = "awaitWallet"
         => /\ calls[i] = <<"setPending(true)">>
            /\ writer # i
            /\ (pc'[i] # "awaitWallet" \/ calls'[i] # calls[i])
                 => \E o \in OverlapWalletOutcomes : SettleWallet(i, o)]_vars
C20_Witness ==
  \E i, j \in Inv :
    /\ i < j
    /\ pc[i] = "awaitWallet" /\ calls[i] = <<"setPending(true)">>
    /\ pc[j] = "done" /\ writer = j /\ ~pending

\* C21: a response returned by a handler that sent a wallet request names
\* that request: its address is the requesting address and its method is the
\* method string the invocation put in client.request.
C21_ResponseNamesRequest ==
  [][\A i \in Inv :
       /\ pc'[i] = "awaitWallet"
            => req'[i].method = RequestMethod(args'[i].h)
       /\ (/\ pc[i] \in {"awaitWallet", "awaitVerify"} /\ pc'[i] = "done"
           /\ ending'[i] = "returned")
            => /\ writer' = i
               /\ result'.address = Str(args[i].address)
               /\ result'.method = RequestMethod(args[i].h)]_vars

\* the value of the row with the given label
RowValue(rows, label) ==
  rows[CHOOSE k \in 1..Len(rows) : rows[k].label = label].value
HasRow(rows, label) == \E k \in 1..Len(rows) : rows[k].label = label

\* C22: personal_sign is sent as [hexMessage, address] and eth_sign as
\* [address, hexMessage], hexMessage being the "0x" hex text of the message;
\* the renderer applied to the request shows the requesting address under
\* "Address" for both, and for personal_sign "Message" is the message text.
C22_ParamsAgreeWithRenderer ==
  LET h == signRequest.by
      params == signRequest.request.params
      hexMessage == utf8ToHex(signMessage, TRUE)
  IN
  /\ h = "testSignPersonalMessage"
       => /\ params = <<hexMessage, signRequest.address>>
          /\ signRequest.request.method.v = <<"personal_sign">>
  /\ h = "testEthSign"
       => /\ params = <<signRequest.address, hexMessage>>
          /\ signRequest.request.method.v = <<"eth_sign">>
  /\ (h \in {"testSignPersonalMessage", "testEthSign"} /\ rendered # <<>>)
       => /\ HasRow(rendered, "Address")
          /\ RowValue(rendered, "Address") = signRequest.address
          /\ HasRow(rendered, "Message")
          /\ h = "testSignPersonalMessage"
               => RowValue(rendered, "Message") = signMessage
C22_Witness ==
  /\ signRequest.by = "testSignPersonalMessage"
  /\ signRequest.address = AddrB
  /\ Len(signMessage) = Len(MessagePrefix) + 2
  /\ rendered # <<>>
  /\ RowValue(rendered, "Message") = signMessage
  /\ signRequest.request.params[1] # signMessage

\* C23: whatever the interleaving of handler invocations and pings, once no
\* invocation is outstanding the pending flag is false and the stored result
\* is the one written by the invocation that settled last.
C23_AllSettledLastWriterShown ==
  (NoneOutstanding /\ LastFinished # 0)
    => /\ ~pending
       /\ writer = LastFinished
       /\ result.kind = "object"
       /\ calls[LastFinished] = ExpectedCalls
C23_Witness ==
  /\ NoneOutstanding
  /\ ~pending
  /\ \E i, j \in Inv :
       /\ i < j /\ Overlapped(i, j)
       /\ FinishOf(j) < FinishOf(i)
       /\ writer = i
       /\ result.method = Str(<<"ping">>)
       /\ ending[j] = "caught"

\* C24: starting a request sets the pending flag and leaves the stored
\* result as it is (the pending view is shown); the result changes only in a
\* step in which an invocation settles; when one of two overlapping
\* invocations settles, pending is false and its result is displayed while
\* the other is still outstanding.
C24_StartKeepsResult ==
  [][/\ \A i \in Inv :
          (pc[i] = "idle" /\ Outstanding(i)')
            => /\ result' = result /\ writer' = writer /\ pending'
               /\ RequestModal(pending', result').view = "pending"
     /\ (result' # result \/ writer' # writer)
          => \E i \in Inv : pc[i] # "done" /\ pc'[i] = "done" /\ writer' = i
     /\ \A i, j \in Inv :
          (/\ i # j /\ Outstanding(i) /\ Outstanding(j)
           /\ pc'[i] = "done")
            => /\ Outstanding(j)'
               /\ ~pending' /\ writer' = i
               /\ RequestModal(pending', result').view = "result"]_vars
C24_Witness ==
  \E i, j \in Inv :
    /\ i < j
    /\ pc[i] = "done" /\ StartOf(j) < FinishOf(i)
    /\ pc[j] = "awaitWallet"
    /\ ~pending /\ writer = i
    /\ RequestModal(pending, result).title = "Request Approved"

\* C25: in testSendTransaction, a balance below gasPrice * gasLimit of the
\* test transaction ends the invocation with no wallet request and the
\* response valid = false, "Insufficient funds for intrinsic transaction
\* cost"; the wallet request is sent exactly when the balance is a number
\* that is at least gasPrice * gasLimit.
C25_InsufficientFundsSendsNothing ==
  [][\A i \in Inv : \A o \in FormatOutcomes : \A b \in Balances :
       (/\ pc[i] = "awaitFormat" /\ args[i].h = "testSendTransaction"
        /\ o.ok /\ SettleFormat(i, o, b))
         => LET cost == o.val.gasPrice * o.val.gasLimit IN
            /\ (b >= 0 /\ b < cost)
                 => /\ pc'[i] = "done" /\ ending'[i] = "returned"
                    /\ nreq'[i] = 0 /\ req'[i] = NoRequest
                    /\ writer' = i /\ ~pending'
                    /\ result'.valid = FALSE
                    /\ result'.result =
                         Str(<<"Insufficient funds for intrinsic transaction cost">>)
                    /\ result'.address = Str(args[i].address)
            /\ (pc'[i] = "awaitWallet") <=> (b >= cost)
            /\ (nreq'[i] = 1) <=> (b >= cost)]_vars
C25_Witness ==
  \E i, j \in Inv :
    /\ i < j
    /\ ending[i] = "returned" /\ nreq[i] = 0 /\ calls[i] = ExpectedCalls
    /\ pc[j] = "awaitWallet" /\ args[j].h = "testSendTransaction"
    /\ writer = i /\ ~result.valid
    /\ result.result =
         Str(<<"Insufficient funds for intrinsic transaction cost">>)

\* C26: testSendTransaction and testSignTransaction called for a
\* chainId:address that is not one of the session's accounts send nothing
\* to the wallet and end with the result valid = false, "Account for
\* <chainId>:<address> not found" and pending false; for an account of the
\* session they go on to format the test transaction.
C26_UnknownAccountSendsNothing ==
  [][\A i \in Inv : \A h \in TxHandlers : \A in \in Inputs :
       (/\ pc[i] = "idle" /\ client /\ session
        /\ Invoke(i, h, in[1], in[2]))
         => LET caipAccountAddress == in[1] \o Colon \o in[2] IN
            IF caipAccountAddress \in accounts
            THEN pc'[i] = "awaitFormat" /\ pending' /\ result' = result
            ELSE /\ pc'[i] = "done" /\ ending'[i] = "caught"
                 /\ nreq'[i] = 0 /\ req'[i] = NoRequest
                 /\ calls'[i] = ExpectedCalls
                 /\ writer' = i /\ ~pending'
                 /\ result'.valid = FALSE
                 /\ result'.address = Str(in[2])
                 /\ result'.result =
                      Str(<<"Account for ">> \o caipAccountAddress
                            \o <<" not found">>)]_vars
C26_Witness ==
  \E i \in Inv :
    /\ pc[i] = "done" /\ ending[i] = "caught" /\ nreq[i] = 0
    /\ writer = i /\ ~pending /\ ~result.valid
    /\ result.result =
         Str(<<"Account for ">> \o ChainEip155_5 \o Colon \o AddrA
               \o <<" not found">>)

\* C27: a signing handler sends its wallet request whatever the chain; the
\* entry of rpcProvidersByChainId is looked up once the wallet has answered,
\* and for a chain reference without entry the invocation then ends with
\* valid = false and "Missing rpcProvider definition for chainId: ...", the
\* signature being dropped without verification.
C27_ProviderLookupAfterWalletAnswer ==
  [][\A i \in Inv :
       /\ \A h \in SignHandlers : \A in \in Inputs :
            (/\ pc[i] = "idle" /\ client /\ session
             /\ Invoke(i, h, in[1], in[2]))
              => /\ pc'[i] = "awaitWallet" /\ nreq'[i] = 1
                 /\ req'[i].chainId = in[1]
                 /\ calls'[i] = <<"setPending(true)">>
       /\ \A o \in WalletOutcomes :
            (/\ pc[i] = "awaitWallet" /\ args[i].h \in SignHandlers
             /\ o.ok /\ ~HasRpcProvider(args[i].chainId)
             /\ SettleWallet(i, o))
              => /\ pc'[i] = "done" /\ ending'[i] = "caught"
                 /\ nreq'[i] = 1
                 /\ writer' = i /\ ~pending'
                 /\ result'.valid = FALSE
                 /\ result'.result =
                      Str(<<"Missing rpcProvider definition for chainId: ">>
                            \o args[i].chainId)
                 /\ result'.result # o.val]_vars
C27_Witness ==
  \E i \in Inv :
    /\ pc[i] = "done" /\ ending[i] = "caught" /\ nreq[i] = 1
    /\ writer = i /\ ~result.valid
    /\ result.address = Str(AddrHedera)
    /\ result.result =
         Str(<<"Missing rpcProvider definition for chainId: ">>
               \o ChainHederaTestnet)

\* C28: a ping started with client and session defined ends by storing the
\* object {method: "ping", valid, result}: valid = true and "Ping succeeded"
\* exactly when client.ping resolved, valid = false and "Ping failed" when
\* it rejected; null is never stored and pending is set back to false.
C28_PingStoresOutcome ==
  [][/\ result'.kind # "null"
     /\ \A i \in Inv :
          /\ (pc[i] = "idle" /\ client /\ session /\ InvokePing(i))
               => pc'[i] = "awaitPing" /\ pending' /\ result' = result
          /\ \A o \in PingOutcomes :
               (pc[i] = "awaitPing" /\ SettlePing(i, o))
                 => /\ pc'[i] = "done" /\ ending'[i] = "returned"
                    /\ calls'[i] = ExpectedCalls /\ nreq'[i] = 0
                    /\ writer' = i /\ ~pending'
                    /\ result'.kind = "object"
                    /\ result'.method = Str(<<"ping">>)
                    /\ result'.valid = o.ok
                    /\ result'.result =
                         (IF o.ok THEN Str(<<"Ping succeeded">>)
                          ELSE Str(<<"Ping failed">>))
                    /\ RequestModal(pending', result').view = "result"]_vars
C28_Witness ==
  \E i \in Inv :
    /\ pc[i] = "done" /\ writer = i /\ ~pending
    /\ result.method = Str(<<"ping">>)
    /\ ~result.valid /\ result.result = Str(<<"Ping failed">>)
    /\ RequestModal(pending, result).title = "Request Failed"

\* the chain ids of cs whose namespace is ns, in the order of cs
ChainsOfNamespace(cs, ns) == SelectSeq(cs, LAMBDA c : NamespaceOf(c) = ns)
ChainsByNamespace(call, cs) ==
  (call.called /\ ~call.out.threw) =>
    \A k \in 1..Len(call.out.val) :
      /\ call.out.val[k].chains = ChainsOfNamespace(cs, call.out.val[k].namespace)
      /\ call.out.val[k].chains # <<>>
Keys(call) == [k \in 1..Len(call.out.val) |-> call.out.val[k].namespace]

\* C29: when the two resolver calls return for a chain list, the maps have
\* the same namespace keys; under each key of either map the chains are the
\* input chain ids of exactly that namespace, in input order; the events of
\* every optional entry are empty.
C29_ChainsGroupedByNamespace ==
  /\ ChainsByNamespace(requiredNamespaces, inputChains)
  /\ ChainsByNamespace(optionalNamespaces, inputChains)
  /\ (optionalNamespaces.called /\ ~optionalNamespaces.out.threw)
       => \A k \in 1..Len(optionalNamespaces.out.val) :
            optionalNamespaces.out.val[k].events = <<>>
  /\ (/\ requiredNamespaces.called /\ ~requiredNamespaces.out.threw
      /\ optionalNamespaces.called /\ ~optionalNamespaces.out.threw)
       => /\ Keys(requiredNamespaces) = Keys(optionalNamespaces)
          /\ \A k \in 1..Len(requiredNamespaces.out.val) :
               requiredNamespaces.out.val[k].chains
                 = optionalNamespaces.out.val[k].chains
  /\ (requiredNamespaces.called /\ optionalNamespaces.called)
       => (requiredNamespaces.out.threw <=> optionalNamespaces.out.threw)
C29_Witness ==
  /\ inputChains = <<ChainEip155_1, ChainHederaTestnet, ChainEip155_999>>
  /\ requiredNamespaces.called /\ optionalNamespaces.called
  /\ Keys(optionalNamespaces) = <<NsEip155, NsHedera>>
  /\ requiredNamespaces.out.val[1].chains = <<ChainEip155_1, ChainEip155_999>>
  /\ optionalNamespaces.out.val[2].chains = <<ChainHederaTestnet>>

\* C30: apiGetAccountBalance gives the empty asset record and sends no
\* network request for a namespace other than eip155 and hedera and for an
\* eip155 reference without provider entry; apiGetAccountNonce and
\* apiGetGasPrice on a reference without provider entry throw; a failed
\* network request of any of the three helpers is thrown to the caller.
C30_RawHelpersPropagate ==
  \A k \in 1..Len(apiCalls) :
    LET e == apiCalls[k]
        ns == NamespaceOf(e.chainId)
        provider == Number(Split(e.chainId, ":")[2]) \in e.api.providers
    IN
    /\ (/\ e.fn = "apiGetAccountBalance"
        /\ \/ ns \notin {NsEip155, NsHedera}
           \/ (ns = NsEip155 /\ ~provider))
         => /\ ~e.out.threw
            /\ e.out.requests = <<>>
            /\ e.out.val.balance = [t |-> "string", s |-> <<>>]
            /\ e.out.val.symbol = "" /\ e.out.val.name = ""
    /\ (e.fn \in {"apiGetAccountNonce", "apiGetGasPrice"} /\ ~provider)
         => (e.out.threw /\ e.out.requests = <<>>)
    /\ Len(e.net) = Len(e.out.requests)
    /\ \A r \in 1..Len(e.net) :
         IF e.net[r].ok THEN ~e.out.threw
         ELSE e.out.threw /\ e.out.msg = e.net[r].msg
C30_Witness ==
  /\ Len(apiCalls) = 2
  /\ apiCalls[1].fn = "apiGetAccountBalance"
  /\ apiCalls[1].chainId = ChainEip155_999
  /\ ~apiCalls[1].out.threw /\ apiCalls[1].out.requests = <<>>
  /\ apiCalls[2].fn = "apiGetAccountNonce"
  /\ apiCalls[2].chainId = ChainEip155_999
  /\ apiCalls[2].out.threw /\ apiCalls[2].out.requests = <<>>

====
